---- MODULE Spec2Model ----
(***************************************************************************)
(* Multiplayer state synchronisation of mtg-proxy-player: the wire         *)
(* encoding of zones, the zone diff engine, the point writes it is turned  *)
(* into, the play-surface operations and the debounced sync loop of        *)
(* src/pages/MultiplayerGame.tsx, against the remote store written through *)
(* src/services/firebase.ts.                                               *)
(***************************************************************************)
EXTENDS Integers, Sequences, FiniteSets, TLC

(***************************************************************************)
(* Bounds of the model.                                                    *)
(***************************************************************************)
\* longest zone the diff engine's inputs are drawn from
MaxZoneLen == 2
\* play-surface operations a client performs over its sessions
MaxOps == 3
\* times the page is opened (the first visit and the rejoins)
MaxSessions == 1
\* times createGameCards instantiates the deck (join, reset, re-create)
MaxDecks == 2
\* store writes of the sync loop that the store rejects
MaxRejects == 1
\* cards of a zone the player picks among (its first PickLimit cards)
PickLimit == 1
\* visits of the page explored when the client leaves and comes back
MaxVisits == 2

(***************************************************************************)
(* Program constants.                                                      *)
(***************************************************************************)
\* drawOpeningHand: library.slice(0, 7)
OpeningHandSize == 7
\* useState(20), life: initialState.life || 20
StartingLife == 20

(***************************************************************************)
(* Values.                                                                 *)
(***************************************************************************)
\* null / undefined of a record-valued reference
Null == [null |-> TRUE]

EmptyFn == [k \in {} |-> k]

\* const zones = ['battlefield', 'graveyard', 'exile', 'hand', 'library']
ZoneNames == <<"battlefield", "graveyard", "exile", "hand", "library">>

Zones == {ZoneNames[i] : i \in DOMAIN ZoneNames}

RoomId == "r1"

Range(s) == {s[i] : i \in DOMAIN s}

\* the deck played: just enough cards for an opening hand
DeckSize == OpeningHandSize

\* the position in the deck list an instance was created from
SlotOf(instanceId) == ((instanceId - 1) % DeckSize) + 1

\* the catalog id of the deck card an instance was created from: the deck
\* holds two copies of each card, and an instance keeps its card for life
CardIdOf(instanceId) == 100 + ((SlotOf(instanceId) + 1) \div 2)

\* localCards: the catalog ids of the loaded deck
DeckCardIds == {CardIdOf(i) : i \in 1..DeckSize}

\* a deck card as the local deck / catalog cache resolves it
KnownCard(cardId) == [id |-> cardId, name |-> "Card"]

\* type GameCard = { instanceId, card, tapped, faceDown }
GameCard(instanceId, tapped, faceDown) ==
    [instanceId |-> instanceId, card |-> KnownCard(CardIdOf(instanceId)),
     tapped |-> tapped, faceDown |-> faceDown]

(***************************************************************************)
(* Zone Model: wire encoding.                                              *)
(***************************************************************************)
toWireCard(gameCard) ==
    [instanceId |-> gameCard.instanceId,
     cardId     |-> gameCard.card.id,
     tapped     |-> gameCard.tapped,
     faceDown   |-> gameCard.faceDown]

\* cardsById[gc.instanceId] = toWireCard(gc) in zone order: the last card of
\* an instanceId wins; order.push(gc.instanceId) for every element
toWireZone(zone) ==
    LET ids == {zone[i].instanceId : i \in DOMAIN zone}
        last(id) == CHOOSE i \in DOMAIN zone :
                        /\ zone[i].instanceId = id
                        /\ \A j \in DOMAIN zone : zone[j].instanceId = id => j <= i
    IN  [cardsById |-> [id \in ids |-> toWireCard(zone[last(id)])],
         order     |-> [i \in DOMAIN zone |-> zone[i].instanceId]]

(***************************************************************************)
(* Zone Diff Engine.                                                       *)
(***************************************************************************)
\* variant: a patch that always carries both fields
CardUpdatesBothFields(prevCard, card) == [f \in {"tapped", "faceDown"} |-> card[f]]

\* the sparse patch of one card: only tapped / faceDown when they differ
CardUpdates(prevCard, card) ==
    LET changed == {f \in {"tapped", "faceDown"} : prevCard[f] # card[f]}
    IN  [f \in changed |-> card[f]]

\* variant: an order comparison that only looks at the length
OrderChangedByLength(prevOrder, order) == Len(prevOrder) # Len(order)

OrderChanged(prevOrder, order) ==
    \/ Len(prevOrder) # Len(order)
    \/ \E i \in 1..Len(order) : prevOrder[i] # order[i]

\* variant: a diff that carries the full order whenever anything changed
computeZoneDiffFullOrder(prev, current) ==
    LET prevCardsById == IF prev = Null THEN EmptyFn ELSE prev.cardsById
        curIds        == DOMAIN current.cardsById
        prevIds       == DOMAIN prevCardsById
        updatedIds    == {id \in curIds \cap prevIds :
                            DOMAIN CardUpdates(prevCardsById[id], current.cardsById[id]) # {}}
    IN  IF prev # Null /\ prev = current THEN Null
        ELSE [addedCards     |-> [id \in curIds \ prevIds |-> current.cardsById[id]],
              removedCardIds |-> prevIds \ curIds,
              updatedCards   |-> [id \in updatedIds |->
                                    CardUpdates(prevCardsById[id], current.cardsById[id])],
              newOrder       |-> [order |-> current.order]]

computeZoneDiff(prev, current) ==
    LET prevCardsById == IF prev = Null THEN EmptyFn ELSE prev.cardsById
        prevOrder     == IF prev = Null THEN <<>> ELSE prev.order
        curIds        == DOMAIN current.cardsById
        prevIds       == DOMAIN prevCardsById
        addedCards    == [id \in curIds \ prevIds |-> current.cardsById[id]]
        removedCardIds == prevIds \ curIds
        updatedIds    == {id \in curIds \cap prevIds :
                            DOMAIN CardUpdates(prevCardsById[id], current.cardsById[id]) # {}}
        updatedCards  == [id \in updatedIds |->
                            CardUpdates(prevCardsById[id], current.cardsById[id])]
        orderChanged  == OrderChanged(prevOrder, current.order)
        hasChanges    == \/ DOMAIN addedCards # {}
                         \/ removedCardIds # {}
                         \/ DOMAIN updatedCards # {}
                         \/ orderChanged
    IN  IF ~hasChanges THEN Null
        ELSE [addedCards     |-> addedCards,
              removedCardIds |-> removedCardIds,
              updatedCards   |-> updatedCards,
              newOrder       |-> IF orderChanged THEN [order |-> current.order] ELSE Null]

(***************************************************************************)
(* Remote store: the subtree rooms/{roomId}/players/{uid} of every         *)
(* participant.  A write at a path replaces the value under it; null and   *)
(* empty values leave nothing behind, so an absent zone and an empty zone  *)
(* are the same value, and so are an absent player and an empty record.    *)
(***************************************************************************)
IsPrefix(p, q) == Len(p) <= Len(q) /\ SubSeq(q, 1, Len(p)) = p

PlayerPath(uid) == <<"rooms", RoomId, "players", uid>>

\* const emptyZone = { cardsById: {}, order: [] }
emptyZone == [cardsById |-> EmptyFn, order |-> <<>>]

\* no value at rooms/{roomId}/players/{uid}
NoPlayer == [z \in Zones |-> emptyZone] @@ [scalars |-> EmptyFn]

PlayerExists(player) == player # NoPlayer

\* the entry cardsById/{id} of a zone after an update: replaced or deleted by
\* a write at the entry's path, patched by writes at its fields' paths
CardAfter(zone, zonePath, id, updates) ==
    LET cardPath == zonePath \o <<"cardsById", id>>
        old      == IF id \in DOMAIN zone.cardsById THEN zone.cardsById[id] ELSE EmptyFn
        base     == IF cardPath \in DOMAIN updates
                    THEN (IF updates[cardPath] = Null THEN EmptyFn ELSE updates[cardPath])
                    ELSE old
        fields   == {p[Len(p)] : p \in {q \in DOMAIN updates :
                                          Len(q) = Len(cardPath) + 1 /\ IsPrefix(cardPath, q)}}
    IN  [f \in fields |-> updates[cardPath \o <<f>>]] @@ base

ZoneAfter(zone, zonePath, updates) ==
    IF zonePath \in DOMAIN updates THEN updates[zonePath]
    ELSE LET cpath   == zonePath \o <<"cardsById">>
             touched == {p[Len(cpath) + 1] : p \in {q \in DOMAIN updates : IsPrefix(cpath, q)}}
             ids     == {id \in DOMAIN zone.cardsById \cup touched :
                            DOMAIN CardAfter(zone, zonePath, id, updates) # {}}
         IN  [cardsById |-> [id \in ids |-> CardAfter(zone, zonePath, id, updates)],
              order     |-> IF (zonePath \o <<"order">>) \in DOMAIN updates
                            THEN updates[zonePath \o <<"order">>]
                            ELSE zone.order]

\* update(ref, values) as it changes one participant's subtree: every key of
\* values is a path, and the value under each path is replaced
PlayerAfter(player, uid, updates) ==
    LET base    == PlayerPath(uid)
        written == {p[Len(p)] : p \in {q \in DOMAIN updates :
                                         /\ Len(q) = Len(base) + 1
                                         /\ IsPrefix(base, q)
                                         /\ q[Len(q)] \notin Zones}}
    IN  [z \in Zones |-> ZoneAfter(player[z], base \o <<z>>, updates)]
        @@ [scalars |-> [k \in written |-> updates[base \o <<k>>]] @@ player.scalars]

ApplyUpdate(players, updates) ==
    [uid \in DOMAIN players |-> PlayerAfter(players[uid], uid, updates)]

(***************************************************************************)
(* updatePlayerStateDiff: the point writes of one incremental update.      *)
(***************************************************************************)
\* variant: an incremental update that never deletes a removed entry
ZoneDiffUpdatesKeepRemoved(zonePath, zoneDiff) ==
    LET added   == [p \in {zonePath \o <<"cardsById", id>> : id \in DOMAIN zoneDiff.addedCards}
                      |-> zoneDiff.addedCards[p[Len(p)]]]
        updated == [p \in {q \in {zonePath \o <<"cardsById", id, key>> :
                                    id \in DOMAIN zoneDiff.updatedCards,
                                    key \in {"tapped", "faceDown"}} :
                              q[Len(q)] \in DOMAIN zoneDiff.updatedCards[q[Len(q) - 1]]}
                      |-> zoneDiff.updatedCards[p[Len(p) - 1]][p[Len(p)]]]
        order   == IF zoneDiff.newOrder # Null
                   THEN (zonePath \o <<"order">>) :> zoneDiff.newOrder.order
                   ELSE EmptyFn
    IN  order @@ updated @@ added

ZoneDiffUpdates(zonePath, zoneDiff) ==
    LET added   == [p \in {zonePath \o <<"cardsById", id>> : id \in DOMAIN zoneDiff.addedCards}
                      |-> zoneDiff.addedCards[p[Len(p)]]]
        removed == [p \in {zonePath \o <<"cardsById", id>> : id \in zoneDiff.removedCardIds}
                      |-> Null]
        updated == [p \in {q \in {zonePath \o <<"cardsById", id, key>> :
                                    id \in DOMAIN zoneDiff.updatedCards,
                                    key \in {"tapped", "faceDown"}} :
                              q[Len(q)] \in DOMAIN zoneDiff.updatedCards[q[Len(q) - 1]]}
                      |-> zoneDiff.updatedCards[p[Len(p) - 1]][p[Len(p)]]]
        order   == IF zoneDiff.newOrder # Null
                   THEN (zonePath \o <<"order">>) :> zoneDiff.newOrder.order
                   ELSE EmptyFn
    IN  order @@ updated @@ removed @@ added

updatePlayerStateDiff(uid, diff) ==
    LET basePath == PlayerPath(uid)
        stamp    == ((basePath \o <<"lastUpdate">>) :> 0) @@ ((basePath \o <<"isOnline">>) :> TRUE)
        zoneUpdates(z) == IF z \in DOMAIN diff
                          THEN ZoneDiffUpdates(basePath \o <<z>>, diff[z])
                          ELSE EmptyFn
        scalar(k) == IF k \in DOMAIN diff THEN (basePath \o <<k>>) :> diff[k] ELSE EmptyFn
    IN  scalar("life") @@ scalar("libraryCount") @@ scalar("handCount")
        @@ zoneUpdates("library") @@ zoneUpdates("hand") @@ zoneUpdates("exile")
        @@ zoneUpdates("graveyard") @@ zoneUpdates("battlefield") @@ stamp

(***************************************************************************)
(* updatePlayerState, setPlayerOnlineStatus, joinGameRoom.                 *)
(***************************************************************************)
\* update(playerRef, { ...updates, lastUpdate: Date.now() })
updatePlayerState(uid, updates) ==
    LET basePath == PlayerPath(uid)
    IN  [p \in {basePath \o <<k>> : k \in DOMAIN updates} |-> updates[p[Len(p)]]]
        @@ ((basePath \o <<"lastUpdate">>) :> 0)

\* variant: an online mark that also clears the hand and the library
setPlayerOnlineStatusClearing(uid, isOnline) ==
    ((PlayerPath(uid) \o <<"isOnline">>) :> isOnline)
    @@ ((PlayerPath(uid) \o <<"lastUpdate">>) :> 0)
    @@ ((PlayerPath(uid) \o <<"hand">>) :> [cardsById |-> <<>>, order |-> <<>>])
    @@ ((PlayerPath(uid) \o <<"library">>) :> [cardsById |-> <<>>, order |-> <<>>])

\* variant: an online mark set on every participant of the room
setPlayerOnlineStatusOfAll(uid, isOnline) ==
    [p \in {PlayerPath(u) \o <<k>> : u \in {"u1", "u2"}, k \in {"isOnline", "lastUpdate"}} |->
        IF p[Len(p)] = "isOnline" THEN isOnline ELSE 0]

\* update(ref(db, `rooms/${roomId}/players/${uid}`), { isOnline, lastUpdate })
setPlayerOnlineStatus(uid, isOnline) ==
    ((PlayerPath(uid) \o <<"isOnline">>) :> isOnline)
    @@ ((PlayerPath(uid) \o <<"lastUpdate">>) :> 0)

\* x || d on a number
OrDefault(x, d) == IF x = 0 THEN d ELSE x

\* set(ref(db, `rooms/${roomId}/players/${uid}`), playerState): the value the
\* participant's subtree is replaced by
joinGameRoom(uid, initialState) ==
    [z \in Zones |-> initialState[z]]
    @@ [scalars |-> [uid          |-> uid,
                     handCount    |-> OrDefault(initialState.handCount, 0),
                     libraryCount |-> OrDefault(initialState.libraryCount, 0),
                     life         |-> OrDefault(initialState.life, StartingLife),
                     lastUpdate   |-> 0,
                     isOnline     |-> TRUE]]

(***************************************************************************)
(* The paths each service function writes, given the handle getDb()        *)
(* returns: every function starts with `if (!db) return`.                  *)
(***************************************************************************)
\* getDb(): the database handle, or null when firebase is not configured
NoDb == "null"

Db == "database"

IndexPath(uid) == <<"roomsIndex", RoomId, "players", uid>>

\* set(rooms/.../players/uid, playerState), set(roomsIndex/.../players/uid, playerSummary)
joinGameRoomWrites(db, uid, initialState) ==
    IF db = NoDb THEN EmptyFn
    ELSE (PlayerPath(uid) :> joinGameRoom(uid, initialState))
         @@ (IndexPath(uid) :> [uid |-> uid, isOnline |-> TRUE])

\* update(rooms/.../players/uid, {isOnline, lastUpdate}), update(roomsIndex/.../players/uid, {isOnline})
setPlayerOnlineStatusWrites(db, uid, isOnline) ==
    IF db = NoDb THEN EmptyFn
    ELSE setPlayerOnlineStatus(uid, isOnline)
         @@ ((IndexPath(uid) \o <<"isOnline">>) :> isOnline)

updatePlayerStateWrites(db, uid, updates) ==
    IF db = NoDb THEN EmptyFn ELSE updatePlayerState(uid, updates)

updatePlayerStateDiffWrites(db, uid, diff) ==
    IF db = NoDb THEN EmptyFn ELSE updatePlayerStateDiff(uid, diff)

\* the writes of one call: the function that issued them and path |-> value
WritesOf(fn, updates) == [fn |-> fn, updates |-> updates]

NoWrites == WritesOf("none", EmptyFn)

(***************************************************************************)
(* Local helpers of the play surface.                                      *)
(***************************************************************************)
\* Math.random() as far as the model draws it
RandomHalves == {1}

\* variant: an assignment of one element in place of the exchange
SwapOverwrite(arr, i, j) == [arr EXCEPT ![i] = arr[j]]

Swap(arr, i, j) == [arr EXCEPT ![i] = arr[j], ![j] = arr[i]]

\* for (i = length - 1; i > 0; i--) { j = floor(random * (i + 1)); swap(i, j) }
\* with 1-based positions and random = half / 2
RECURSIVE ShuffleFrom(_, _, _)
ShuffleFrom(arr, i, half) ==
    IF i <= 1 THEN arr
    ELSE ShuffleFrom(Swap(arr, i, ((half * i) \div 2) + 1), i - 1, half)

shuffleArray(array, half) == ShuffleFrom(array, Len(array), half)

\* one GameCard per deck card copy, with a fresh instanceId, then shuffled
createGameCards(firstId, half) ==
    shuffleArray([i \in 1..DeckSize |-> GameCard(firstId + i, FALSE, FALSE)], half)

\* variant: a placeholder that does not keep the id it stands for
createUnknownCardAnonymous(id) == [id |-> 0, name |-> "Unknown Card"]

createUnknownCard(id) == [id |-> id, name |-> "Unknown Card"]

\* localCards.get(cardId) || getCachedCardById(cardId) || createUnknownCard(cardId)
ResolveCard(cardId, localCards) ==
    IF cardId \in localCards THEN KnownCard(cardId) ELSE createUnknownCard(cardId)

hydrateZone(zone, localCards) ==
    LET present == SelectSeq(zone.order, LAMBDA id : id \in DOMAIN zone.cardsById)
    IN  [i \in DOMAIN present |->
            LET wire == zone.cardsById[present[i]]
            IN  [instanceId |-> wire.instanceId,
                 card       |-> ResolveCard(wire.cardId, localCards),
                 tapped     |-> wire.tapped,
                 faceDown   |-> wire.faceDown]]

NoZones == [z \in Zones |-> <<>>]

\* the state the sync effect's timer callback encodes
WireState(zs, lf) ==
    [z \in Zones |-> toWireZone(zs[z])]
    @@ [handCount |-> Len(zs.hand), libraryCount |-> Len(zs.library), life |-> lf]

\* the initialState the create branch hands to joinGameRoom: empty zones, the
\* new cards in the library, handCount 0, libraryCount gameCards.length, life 20
InitialState(gameCards) ==
    [z \in Zones |-> toWireZone(IF z = "library" THEN gameCards ELSE <<>>)]
    @@ [handCount |-> 0, libraryCount |-> Len(gameCards), life |-> StartingLife]

\* variant: a view of the other participants that hydrates every zone
HydratePeersAllZones(roomPlayers, uid, localCards) ==
    [u \in {v \in DOMAIN roomPlayers : PlayerExists(roomPlayers[v]) /\ v # uid} |->
        [z \in Zones |-> hydrateZone(roomPlayers[u][z], localCards)]
        @@ [scalars |-> roomPlayers[u].scalars]]

\* the room callback's view of the other participants: battlefield, graveyard
\* and exile hydrated, hand: [], library: [], the scalars spread from the record
HydratePeers(roomPlayers, uid, localCards) ==
    LET others == {u \in DOMAIN roomPlayers :
                      /\ PlayerExists(roomPlayers[u])
                      /\ ~("uid" \in DOMAIN roomPlayers[u].scalars
                            /\ roomPlayers[u].scalars.uid = uid)}
    IN  [u \in others |->
            [battlefield |-> hydrateZone(roomPlayers[u].battlefield, localCards),
             graveyard   |-> hydrateZone(roomPlayers[u].graveyard, localCards),
             exile       |-> hydrateZone(roomPlayers[u].exile, localCards),
             hand        |-> <<>>,
             library     |-> <<>>,
             scalars     |-> roomPlayers[u].scalars]]

(***************************************************************************)
(* State of one client (MultiplayerGame of participant Me) and the store.  *)
(***************************************************************************)
VARIABLES
    mounted,            \* the MultiplayerGame page is rendered
    authPending,        \* ensureSignedIn() has not resolved yet
    subscribed,         \* the subscribeToRoom listener is attached
    currentUidRef,      \* currentUidRef.current
    isInitializedRef,   \* isInitializedRef.current
    isReady,            \* useState isReady
    zones,              \* useState library, hand, battlefield, graveyard, exile
    life,               \* useState life
    draggedCard,        \* useState draggedCard: Null or {card, from}
    room,               \* useState room: the players of the last room snapshot, or Null
    otherPlayers,       \* useState otherPlayers: the hydrated peers, by uid
    timers,             \* pending setTimeout callbacks with the state they close over
    syncTimeoutRef,     \* syncTimeoutRef.current: 0 (null) or a timer id
    lastSyncedStateRef, \* lastSyncedStateRef.current
    players,            \* the store: rooms/{roomId}/players
    decksMade,          \* createGameCards calls so far (instance ids handed out)
    opsLeft,            \* play-surface operations still allowed by MaxOps
    sessionsLeft,       \* page visits still allowed by MaxSessions
    rejectsLeft,        \* rejected sync writes still allowed by MaxRejects
    lastOp,             \* history: the last play-surface operation and the cards it moved
    pendingOps,         \* history: operations since the debounce timer last fired
    lastTick,           \* history: what the last timer callback did
    lastInit,           \* history: what the first room snapshot of this visit did
    leftWith,           \* history: the local zones and life when the page was last left
    written             \* history: the store paths the last writing handler wrote

\* an ObserverView page watching the room
VARIABLES observerRoom,     \* useState room of the observer
          observerPlayers   \* useState players of the observer

\* one call of a service function of firebase.ts
VARIABLES sDb,       \* what getDb() returns
          sResult    \* what the call did: writes, return value, callbacks, throw

\* one call of hydrateZone on a zone value read from the store
VARIABLES hZone,     \* the zone argument
          hCache,    \* the cardIds getCachedCardById resolves
          hResult    \* what the call did: the cards returned, or a throw

\* one call of shuffleLibrary
VARIABLES shZones,     \* the local zones
          shBefore,    \* the local zones before the call
          shArray,     \* shuffleArray's argument
          shShuffled,  \* shuffleArray's local copy
          shI,         \* the loop index, counted from 1
          shPhase      \* "idle", "loop", "set"; "done" when no call is explored

\* the turn order of the room and the clients that join it and end turns
VARIABLES tOrder,    \* rooms/{roomId}/turnOrder in the store
          tIndex,    \* rooms/{roomId}/currentTurnIndex in the store
          tInbox,    \* per client: the room snapshot on its way to the listener
          tRoom,     \* per client: useState room, the last snapshot handled
          tLast      \* the last call of addPlayerToTurnOrder or advanceTurn

\* the lobby: rooms created, listed and cancelled
VARIABLES cRooms,    \* per room id: the value at rooms/{roomId}
          cIndex,    \* per room id: the value at roomsIndex/{roomId}
          cList,     \* per client: useState rooms of the lobby page
          cLast      \* the last run of handleCancelRoom

\* callers of rateLimitedFetch
VARIABLES fNow,              \* Date.now(), in ms
          lastRequestTime,   \* let lastRequestTime
          fCallers,          \* per caller: where it is in rateLimitedFetch
          fStarts            \* the times at which fetch(url, options) was called

\* one call of prefetchCardsById
VARIABLES pIds,        \* the argument
          cardCache,   \* const cardCache: id -> card
          pBefore,     \* cardCache when the call was made
          pMissing,    \* the ids the loop has still to go through
          pFetched,    \* per id a fetch was made for: its outcome
          pPhase       \* "idle", "loop", "resolved", "rejected"

\* the cloud decks of one user and the calls that save and delete them
VARIABLES userDecks,   \* userDecks/{uid}: odId -> deck id
          kNextKey,    \* the next key push() gives
          kCalls       \* per call in progress: what it is doing and what it loaded

\* one room, its creator in the lobby and players on the game page
VARIABLES vRules,        \* the access rules of the README are deployed
          vRoom,         \* rooms/{roomId}: the room's own fields
          vOrder,        \* rooms/{roomId}/turnOrder
          vPlayers,      \* rooms/{roomId}/players
          vIndex,        \* roomsIndex/{roomId}: the entry's own fields
          vIndexPlayers, \* roomsIndex/{roomId}/players: the fields stored per uid
          vClient,       \* per player: the MultiplayerGame component and its listener
          vCancelled,    \* history: deleteGameRoom has removed the room
          vLast          \* history: the last store write a client issued

\* the ingestion of the other participants by one MultiplayerGame page
VARIABLES gPlayers,    \* rooms/{roomId}/players in the store
          gSyncsLeft,  \* syncs of the peer still allowed by MaxPeerSyncs
          gSeq,        \* room snapshots the listener has handled so far
          gSeen,       \* the players of the last snapshot handled
          gCache,      \* cardCache of scryfall.ts
          gTasks,      \* ingestions waiting for a getCardById
          gView        \* useState otherPlayers, with the snapshot it was made from

VARIABLES dA, dB, dDiff, dUpdates, dStore, dDone,
          dFirst      \* the result of computeZoneDiff(null, B), once computed

clientVars == <<mounted, authPending, subscribed, currentUidRef, isInitializedRef, isReady,
                zones, life, draggedCard, room, otherPlayers, timers,
                syncTimeoutRef,
                lastSyncedStateRef>>

historyVars == <<lastOp, pendingOps, lastTick>>

sessionLog == <<lastInit, leftWith, written>>

boundVars == <<decksMade, opsLeft, sessionsLeft, rejectsLeft>>

mainVars == <<clientVars, players, boundVars, historyVars, sessionLog>>

diffVars == <<dA, dB, dDiff, dUpdates, dStore, dDone, dFirst>>

observerVars == <<observerRoom, observerPlayers>>

hydrateVars == <<hZone, hCache, hResult>>

shuffleVars == <<shZones, shBefore, shArray, shShuffled, shI, shPhase>>

\* the variables of the functions explored on their own
turnVars == <<tOrder, tIndex, tInbox, tRoom, tLast>>

lobbyVars == <<cRooms, cIndex, cList, cLast>>

fetchVars == <<fNow, lastRequestTime, fCallers, fStarts>>

prefetchVars == <<pIds, cardCache, pBefore, pMissing, pFetched, pPhase>>

deckVars == <<userDecks, kNextKey, kCalls>>

visitVars == <<vRules, vRoom, vOrder, vPlayers, vIndex, vIndexPlayers, vClient, vCancelled,
               vLast>>

ingestVars == <<gPlayers, gSyncsLeft, gSeq, gSeen, gCache, gTasks, gView>>

unitVars == <<shuffleVars, turnVars, lobbyVars, fetchVars, prefetchVars, deckVars, visitVars,
              ingestVars>>

serviceVars == <<sDb, sResult, hydrateVars, unitVars>>

\* the variables the client's handlers never touch
offstage == <<diffVars, observerVars, serviceVars>>

vars == <<mainVars, offstage>>

\* this client's participant, and another participant of the room
Me == "u1"

Peer == "u2"

NoUid == "none"

\* the peer has joined with its own deck and plays from another browser
PeerState ==
    joinGameRoom(Peer, InitialState(<<GameCard(901, FALSE, FALSE)>>))

NoOp == [name |-> "none", moved |-> {}]

NoInit == [branch |-> "none", saved |-> FALSE, joins |-> 0, zones |-> NoZones,
           life |-> StartingLife, before |-> NoPlayer]

NoTick == [fired |-> FALSE, writes |-> 0, paths |-> {}, ops |-> <<>>,
           prevNull |-> TRUE, changed |-> {}, ok |-> TRUE]

\* the component's state when the page is (re)opened
FreshComponent ==
    /\ currentUidRef' = NoUid
    /\ isInitializedRef' = FALSE
    /\ isReady' = FALSE
    /\ zones' = NoZones
    /\ life' = StartingLife
    /\ draggedCard' = Null
    /\ room' = Null
    /\ otherPlayers' = EmptyFn
    /\ syncTimeoutRef' = 0
    /\ lastSyncedStateRef' = Null
    /\ lastOp' = NoOp
    /\ pendingOps' = <<>>
    /\ lastTick' = NoTick
    /\ lastInit' = NoInit

\* what an earlier visit of Me left in the store: joined, drew a card, synced
\* and closed the page
SavedGame ==
    LET gameCards == createGameCards(0, 1)
        joined    == joinGameRoom(Me, InitialState(gameCards))
        played    == WireState([NoZones EXCEPT !.library = Tail(gameCards),
                                                   !.hand = <<Head(gameCards)>>],
                               StartingLife)
        synced    == ApplyUpdate((Me :> joined),
                                 updatePlayerState(Me, played @@ [isOnline |-> TRUE]))
    IN  ApplyUpdate(synced, setPlayerOnlineStatus(Me, FALSE))[Me]

\* a saved game whose owner had changed the life total before leaving
SavedGameWithLife(lf) == [SavedGame EXCEPT !.scalars.life = lf]

\* stores: what the store may hold for Me when the page is first opened, with
\* the number of decks instantiated to get there
MainInitWith(sessions, rejects, stores) ==
    /\ mounted = FALSE /\ authPending = FALSE /\ subscribed = FALSE
    /\ currentUidRef = NoUid /\ isInitializedRef = FALSE /\ isReady = FALSE
    /\ zones = NoZones /\ life = StartingLife /\ draggedCard = Null
    /\ room = Null /\ otherPlayers = EmptyFn
    /\ timers = {} /\ syncTimeoutRef = 0 /\ lastSyncedStateRef = Null
    /\ \E st \in stores :
         /\ players = (Me :> st.player) @@ (Peer :> PeerState)
         /\ decksMade = st.decks
    /\ opsLeft = MaxOps /\ sessionsLeft = sessions /\ rejectsLeft = rejects
    /\ lastOp = NoOp /\ pendingOps = <<>> /\ lastTick = NoTick
    /\ lastInit = NoInit /\ leftWith = Null /\ written = NoWrites
    /\ observerRoom = Null /\ observerPlayers = EmptyFn

MainInit(sessions, rejects) ==
    MainInitWith(sessions, rejects, {[player |-> NoPlayer, decks |-> 0],
                                     [player |-> SavedGame, decks |-> 1]})

\* no service call under test: the client's own calls run with a database
NoCall == [fn |-> "none", writes |-> EmptyFn, returned |-> "undefined",
           delivered |-> <<>>, threw |-> FALSE]

\* an absent zone: undefined
AbsentZone == [form |-> "absent", array |-> <<>>, cardsById |-> EmptyFn, order |-> <<>>]

NoHydrate == [done |-> FALSE, threw |-> FALSE, cards |-> <<>>, resolvable |-> {}]

ShuffleIdle ==
    /\ shZones = NoZones /\ shBefore = NoZones /\ shArray = <<>>
    /\ shShuffled = <<>> /\ shI = 0 /\ shPhase = "done"

\* no snapshot
NoSnap == [has |-> FALSE, order |-> <<>>, index |-> 0]

NoTurnCall == [fn |-> "none", uid |-> "", order |-> <<>>, index |-> 0,
               wrote |-> FALSE, wroteOrder |-> <<>>, wroteIndex |-> 0]

TurnIdle ==
    /\ tOrder = <<>> /\ tIndex = 0 /\ tInbox = EmptyFn /\ tRoom = EmptyFn
    /\ tLast = [NoTurnCall EXCEPT !.fn = "idle"]

\* nothing stored for a room id: never created ("") or removed ("removed")
NoRoom == [exists |-> FALSE, createdByUid |-> ""]

NoCancel == [fn |-> "none", by |-> "", room |-> "", page |-> "", creator |-> "",
             issued |-> FALSE, removedRoom |-> FALSE, removedIndex |-> FALSE]

LobbyIdle ==
    /\ cRooms = EmptyFn /\ cIndex = EmptyFn /\ cList = EmptyFn
    /\ cLast = [NoCancel EXCEPT !.fn = "idle"]

FetchIdle ==
    /\ fNow = 0 /\ lastRequestTime = 0 /\ fCallers = EmptyFn /\ fStarts = <<>>

PrefetchIdle ==
    /\ pIds = <<>> /\ cardCache = EmptyFn /\ pBefore = EmptyFn /\ pMissing = <<>>
    /\ pFetched = EmptyFn /\ pPhase = "done"

DecksIdle == userDecks = EmptyFn /\ kNextKey = 0 /\ kCalls = EmptyFn

NoVisitWrite == [fn |-> "none", by |-> "", late |-> FALSE]

VisitIdle ==
    /\ vRules = FALSE /\ vRoom = NoRoom /\ vOrder = <<>> /\ vPlayers = EmptyFn
    /\ vIndex = NoRoom /\ vIndexPlayers = EmptyFn /\ vClient = EmptyFn
    /\ vCancelled = FALSE /\ vLast = [NoVisitWrite EXCEPT !.fn = "idle"]

IngestIdle ==
    /\ gPlayers = EmptyFn /\ gSyncsLeft = 0 /\ gSeq = 0 /\ gSeen = Null
    /\ gCache = EmptyFn /\ gTasks = {} /\ gView = [seq |-> 0, players |-> EmptyFn]

\* every function explored on its own is at rest, but for the one named
UnitsIdleBut(unit) ==
    /\ IF unit = "shuffle" THEN TRUE ELSE ShuffleIdle
    /\ IF unit = "turn" THEN TRUE ELSE TurnIdle
    /\ IF unit = "lobby" THEN TRUE ELSE LobbyIdle
    /\ IF unit = "fetch" THEN TRUE ELSE FetchIdle
    /\ IF unit = "prefetch" THEN TRUE ELSE PrefetchIdle
    /\ IF unit = "decks" THEN TRUE ELSE DecksIdle
    /\ IF unit = "visit" THEN TRUE ELSE VisitIdle
    /\ IF unit = "ingest" THEN TRUE ELSE IngestIdle

\* the client, the store and the calls explored elsewhere are at rest
UnitInit(unit) ==
    /\ MainInit(0, 0) /\ decksMade = 0
    /\ dA = <<>> /\ dB = <<>> /\ dDiff = Null /\ dUpdates = EmptyFn
    /\ dStore = (Me :> NoPlayer) /\ dDone = TRUE
    /\ dFirst = [done |-> TRUE, diff |-> Null]
    /\ sDb = Db /\ sResult = [NoCall EXCEPT !.fn = "idle"]
    /\ hZone = AbsentZone /\ hCache = {}
    /\ hResult = [NoHydrate EXCEPT !.done = TRUE]
    /\ UnitsIdleBut(unit)

HydrateIdle ==
    /\ UnitsIdleBut("none")
    /\ hZone = AbsentZone /\ hCache = {}
    /\ hResult = [NoHydrate EXCEPT !.done = TRUE]

ServiceIdle ==
    /\ sDb = Db /\ sResult = [NoCall EXCEPT !.fn = "idle"]
    /\ HydrateIdle

DiffIdle ==
    /\ ServiceIdle
    /\ dA = <<>> /\ dB = <<>> /\ dDiff = Null /\ dUpdates = EmptyFn
    /\ dStore = (Me :> NoPlayer) /\ dDone = TRUE
    /\ dFirst = [done |-> TRUE, diff |-> Null]

(***************************************************************************)
(* The sync effect: useEffect(..., [roomId, battlefield, graveyard, exile, *)
(* hand, library, life, isReady]).  It runs after every render in which a *)
(* dependency changed: first the previous run's cleanup, then the body.    *)
(***************************************************************************)
ClearTimeout(ts, id) == {t \in ts : t.id # id}

\* setTimeout returns an id no live timer has
FreshTimerId(ts) == CHOOSE n \in 1..(Cardinality(ts) + 1) :
                        /\ \A t \in ts : t.id # n
                        /\ \A m \in 1..(n - 1) : \E t \in ts : t.id = m

\* variant: an effect that starts a timer without clearing the pending one
SyncEffectKeepTimer(ts, ref, ready, zs, lf) ==
    IF ~ready THEN [timers |-> ts, ref |-> ref]
    ELSE [timers |-> ts \cup {[id |-> FreshTimerId(ts), zones |-> zs, life |-> lf]},
          ref    |-> FreshTimerId(ts)]

\* variant: an effect without the readiness guard
SyncEffectUnguarded(ts, ref, ready, zs, lf) ==
    LET cleaned == ClearTimeout(ts, ref)
        id      == FreshTimerId(cleaned)
    IN  [timers |-> cleaned \cup {[id |-> id, zones |-> zs, life |-> lf]}, ref |-> id]

\* if (!roomId || !isReady) return; clearTimeout(syncTimeoutRef.current);
\* syncTimeoutRef.current = setTimeout(..., 300), after the cleanup of the
\* previous run
SyncEffect(ts, ref, ready, zs, lf) ==
    LET cleaned == ClearTimeout(ts, ref)
        id      == FreshTimerId(ClearTimeout(cleaned, ref))
    IN  IF ~ready THEN [timers |-> cleaned, ref |-> ref]
        ELSE [timers |-> ClearTimeout(cleaned, ref) \cup {[id |-> id, zones |-> zs, life |-> lf]},
              ref    |-> id]

(***************************************************************************)
(* Session: opening the page, sign-in, the first room snapshot, leaving.   *)
(***************************************************************************)
\* the first render: the init effect up to `await ensureSignedIn()`, and the
\* sync effect, which finds isReady false
Mount ==
    /\ ~mounted /\ sessionsLeft > 0
    /\ mounted' = TRUE
    /\ authPending' = TRUE
    /\ subscribed' = FALSE
    /\ sessionsLeft' = sessionsLeft - 1
    /\ FreshComponent
    /\ timers' = SyncEffect(timers, 0, FALSE, NoZones, StartingLife).timers
    /\ UNCHANGED <<players, decksMade, opsLeft, rejectsLeft, leftWith, written, offstage>>

\* ensureSignedIn() resolves: currentUidRef.current = user.uid; subscribeToRoom
SignedIn ==
    /\ mounted /\ authPending
    /\ authPending' = FALSE
    /\ currentUidRef' = Me
    /\ subscribed' = TRUE
    /\ UNCHANGED <<mounted, isInitializedRef, isReady, zones, life, draggedCard, room, otherPlayers,
                   timers, syncTimeoutRef, lastSyncedStateRef, players, boundVars, historyVars,
                   sessionLog, offstage>>

\* variant: a callback that initializes on every snapshot
NeedsInitAlways(ref) == TRUE

\* if (!isInitializedRef.current)
NeedsInit(ref) == ~ref

\* if (existingPlayer && existingPlayer.hand && existingPlayer.library)
HasSavedGame(player) ==
    PlayerExists(player) /\ player.hand # emptyZone /\ player.library # emptyZone

\* first room snapshot, restore branch
SnapshotRestore ==
    /\ subscribed /\ NeedsInit(isInitializedRef)
    /\ HasSavedGame(players[Me])
    /\ LET existingPlayer == players[Me]
           zs == [z \in Zones |-> hydrateZone(existingPlayer[z], DeckCardIds)]
           lf == IF "life" \in DOMAIN existingPlayer.scalars
                 THEN OrDefault(existingPlayer.scalars.life, StartingLife)
                 ELSE StartingLife
           eff == SyncEffect(timers, syncTimeoutRef, TRUE, zs, lf)
       IN  /\ zones' = zs
           /\ life' = lf
           /\ players' = ApplyUpdate(players, setPlayerOnlineStatus(Me, TRUE))
           /\ timers' = eff.timers
           /\ syncTimeoutRef' = eff.ref
           /\ lastInit' = [branch |-> "restore", saved |-> HasSavedGame(existingPlayer),
                           joins |-> 0, zones |-> zs, life |-> lf,
                           before |-> existingPlayer]
           /\ written' = WritesOf("setPlayerOnlineStatus",
                                  setPlayerOnlineStatusWrites(Db, Me, TRUE))
    /\ room' = players
    /\ otherPlayers' = HydratePeers(players, Me, DeckCardIds)
    /\ isInitializedRef' = TRUE
    /\ isReady' = TRUE
    /\ lastOp' = NoOp
    /\ UNCHANGED <<mounted, authPending, subscribed, currentUidRef, draggedCard,
                   lastSyncedStateRef, boundVars, pendingOps, lastTick, leftWith, offstage>>

\* first room snapshot, create branch
SnapshotCreate ==
    /\ subscribed /\ NeedsInit(isInitializedRef)
    /\ ~HasSavedGame(players[Me])
    /\ decksMade < MaxDecks
    /\ \E half \in RandomHalves :
        LET gameCards == createGameCards(decksMade * DeckSize, half)
            zs  == [zones EXCEPT !.library = gameCards]
            initialState == InitialState(gameCards)
            eff == SyncEffect(timers, syncTimeoutRef, TRUE, zs, life)
        IN  /\ zones' = zs
            /\ players' = [players EXCEPT ![Me] = joinGameRoom(Me, initialState)]
            /\ timers' = eff.timers
            /\ syncTimeoutRef' = eff.ref
            /\ lastInit' = [branch |-> "create", saved |-> HasSavedGame(players[Me]),
                            joins |-> 1, zones |-> zs, life |-> life,
                            before |-> players[Me]]
            /\ written' = WritesOf("joinGameRoom", joinGameRoomWrites(Db, Me, initialState))
    /\ room' = players
    /\ otherPlayers' = HydratePeers(players, Me, DeckCardIds)
    /\ decksMade' = decksMade + 1
    /\ isInitializedRef' = TRUE
    /\ isReady' = TRUE
    /\ lastOp' = NoOp
    /\ UNCHANGED <<mounted, authPending, subscribed, currentUidRef, life, draggedCard,
                   lastSyncedStateRef, opsLeft, sessionsLeft, rejectsLeft,
                   pendingOps, lastTick, leftWith, offstage>>

\* leaving the page: the cleanups of the init effect and of the sync effect
Teardown ==
    /\ mounted /\ ~authPending
    /\ mounted' = FALSE
    /\ authPending' = FALSE
    /\ subscribed' = FALSE
    /\ players' = IF currentUidRef # NoUid
                  THEN ApplyUpdate(players, setPlayerOnlineStatus(currentUidRef, FALSE))
                  ELSE players
    /\ timers' = ClearTimeout(timers, syncTimeoutRef)
    /\ written' = IF currentUidRef # NoUid
                  THEN WritesOf("setPlayerOnlineStatus",
                                setPlayerOnlineStatusWrites(Db, currentUidRef, FALSE))
                  ELSE NoWrites
    /\ leftWith' = IF sessionsLeft > 0 /\ isReady
                   THEN [zones |-> zones, life |-> life] ELSE leftWith
    /\ FreshComponent
    /\ UNCHANGED <<boundVars, offstage>>

(***************************************************************************)
(* Play-surface operations: the state setters of each callback applied to  *)
(* the five zones.                                                         *)
(***************************************************************************)
\* prev.filter((c) => c.instanceId !== card.instanceId)
Without(zone, card) == SelectSeq(zone, LAMBDA c : c.instanceId # card.instanceId)

InZone(zone, card) == \E i \in DOMAIN zone : zone[i].instanceId = card.instanceId

Ids(zone) == {zone[i].instanceId : i \in DOMAIN zone}

drawCard(zs) ==
    [zs EXCEPT !.library = Tail(zs.library),
               !.hand = Append(zs.hand, Head(zs.library))]

drawOpeningHand(zs) ==
    [zs EXCEPT !.library = SubSeq(zs.library, OpeningHandSize + 1, Len(zs.library)),
               !.hand = SubSeq(zs.library, 1, OpeningHandSize)]

shuffleLibrary(zs, half) == [zs EXCEPT !.library = shuffleArray(zs.library, half)]

playCard(zs, card) ==
    [zs EXCEPT !.hand = Without(zs.hand, card),
               !.battlefield = Append(zs.battlefield, card)]

returnToHand(zs, card) ==
    [zs EXCEPT !.battlefield = Without(zs.battlefield, card),
               !.hand = Append(zs.hand, card)]

\* from: 'hand' | 'battlefield'
sendToGraveyard(zs, card, from) ==
    LET removed == IF from = "hand"
                   THEN [zs EXCEPT !.hand = Without(zs.hand, card)]
                   ELSE [zs EXCEPT !.battlefield = Without(zs.battlefield, card)]
    IN  [removed EXCEPT !.graveyard = Append(removed.graveyard, card)]

\* to: 'hand' | 'battlefield'
returnFromGraveyard(zs, card, to) ==
    LET removed == [zs EXCEPT !.graveyard = Without(zs.graveyard, card)]
        toZone  == IF to = "hand" THEN "hand" ELSE "battlefield"
    IN  [removed EXCEPT ![toZone] = Append(removed[toZone], [card EXCEPT !.tapped = FALSE])]

\* from: 'hand' | 'battlefield' | 'graveyard'
exileCard(zs, card, from, faceDown) ==
    LET fromZone == IF from = "hand" THEN "hand"
                    ELSE IF from = "battlefield" THEN "battlefield" ELSE "graveyard"
        removed  == [zs EXCEPT ![fromZone] = Without(zs[fromZone], card)]
    IN  [removed EXCEPT !.exile = Append(removed.exile,
                                          [card EXCEPT !.faceDown = faceDown, !.tapped = FALSE])]

returnFromExile(zs, card, to) ==
    LET removed == [zs EXCEPT !.exile = Without(zs.exile, card)]
        toZone  == IF to = "hand" THEN "hand" ELSE "battlefield"
    IN  [removed EXCEPT ![toZone] = Append(removed[toZone],
                                           [card EXCEPT !.tapped = FALSE, !.faceDown = FALSE])]

toggleExileFaceDown(zs, card) ==
    [zs EXCEPT !.exile = [i \in DOMAIN zs.exile |->
        IF zs.exile[i].instanceId = card.instanceId
        THEN [zs.exile[i] EXCEPT !.faceDown = ~zs.exile[i].faceDown]
        ELSE zs.exile[i]]]

\* to: 'hand' | 'battlefield' | 'graveyard' | 'exile' | 'top'
moveFromLibrary(zs, card, to, faceDown) ==
    LET removed == [zs EXCEPT !.library = Without(zs.library, card)]
        reset   == [card EXCEPT !.tapped = FALSE, !.faceDown = FALSE]
    IN  CASE to = "hand"        -> [removed EXCEPT !.hand = Append(removed.hand, reset)]
          [] to = "battlefield" -> [removed EXCEPT !.battlefield = Append(removed.battlefield, reset)]
          [] to = "graveyard"   -> [removed EXCEPT !.graveyard = Append(removed.graveyard, card)]
          [] to = "exile"       -> [removed EXCEPT !.exile = Append(removed.exile,
                                        [card EXCEPT !.faceDown = faceDown, !.tapped = FALSE])]
          [] to = "top"         -> [removed EXCEPT !.library = <<card>> \o removed.library]
          [] OTHER              -> removed

\* the removal the library movers and handleDrop share: only these four
\* source zones are handled, any other `from` removes nothing
RemoveFrom(zs, card, from) ==
    IF from \in {"hand", "battlefield", "graveyard", "exile"}
    THEN [zs EXCEPT ![from] = Without(zs[from], card)]
    ELSE zs

putOnTopOfLibrary(zs, card, from) ==
    LET removed == RemoveFrom(zs, card, from)
    IN  [removed EXCEPT !.library =
            <<[card EXCEPT !.tapped = FALSE, !.faceDown = FALSE]>> \o removed.library]

putOnBottomOfLibrary(zs, card, from) ==
    LET removed == RemoveFrom(zs, card, from)
    IN  [removed EXCEPT !.library =
            Append(removed.library, [card EXCEPT !.tapped = FALSE, !.faceDown = FALSE])]

\* the library search's inline setters "Put on Top" / "Put on Bottom"
LibraryPutOnTop(zs, card) ==
    [zs EXCEPT !.library = <<card>> \o Without(zs.library, card)]

LibraryPutOnBottom(zs, card) ==
    [zs EXCEPT !.library = Append(Without(zs.library, card), card)]

toggleTapped(zs, card) ==
    [zs EXCEPT !.battlefield = [i \in DOMAIN zs.battlefield |->
        IF zs.battlefield[i].instanceId = card.instanceId
        THEN [zs.battlefield[i] EXCEPT !.tapped = ~zs.battlefield[i].tapped]
        ELSE zs.battlefield[i]]]

untapAll(zs) ==
    [zs EXCEPT !.battlefield = [i \in DOMAIN zs.battlefield |->
        [zs.battlefield[i] EXCEPT !.tapped = FALSE]]]

\* handleDrop(to) past its early returns: dragged = { card, from }, from # to
handleDrop(zs, dragged, to) ==
    LET card    == dragged.card
        removed == RemoveFrom(zs, card, dragged.from)
    IN  CASE to = "hand"        -> [removed EXCEPT !.hand = Append(removed.hand,
                                        [card EXCEPT !.tapped = FALSE, !.faceDown = FALSE])]
          [] to = "battlefield" -> [removed EXCEPT !.battlefield = Append(removed.battlefield,
                                        [card EXCEPT !.tapped = FALSE, !.faceDown = FALSE])]
          [] to = "graveyard"   -> [removed EXCEPT !.graveyard = Append(removed.graveyard, card)]
          [] to = "exile"       -> [removed EXCEPT !.exile = Append(removed.exile,
                                        [card EXCEPT !.faceDown = FALSE])]
          [] OTHER              -> removed

(***************************************************************************)
(* Event handlers of the play surface.  A handler runs its setters, React  *)
(* re-renders, and the sync effect re-runs because a zone or life changed. *)
(***************************************************************************)
DropZones == {"hand", "battlefield", "graveyard", "exile"}

\* the zones the modelled drags start in
DragSources == {"hand"}

\* the cards of a zone the player acts on: its first PickLimit cards
Pick(zone) == {zone[i] : i \in 1..(IF Len(zone) < PickLimit THEN Len(zone) ELSE PickLimit)}

\* the card menu shows the actions of each zone that holds the selected
\* card's instanceId (zone.some((c) => c.instanceId === selectedCard.instanceId))
MenuCards(section) ==
    {c \in UNION {Pick(zones[z]) : z \in DropZones} : InZone(zones[section], c)}

Rendered(zs, lf, dragged, name, moved) ==
    /\ mounted /\ ~authPending /\ opsLeft > 0
    /\ \E rendered \in {zs} :
         /\ zones' = rendered
         /\ \E eff \in {SyncEffect(timers, syncTimeoutRef, isReady, rendered, lf)} :
              timers' = eff.timers /\ syncTimeoutRef' = eff.ref
    /\ life' = lf
    /\ draggedCard' = dragged
    /\ opsLeft' = opsLeft - 1
    /\ lastOp' = [name |-> name, moved |-> moved]
    /\ pendingOps' = IF isReady THEN Append(pendingOps, name) ELSE pendingOps
    /\ UNCHANGED <<mounted, authPending, subscribed, currentUidRef, isInitializedRef, isReady,
                   lastSyncedStateRef, players, decksMade, sessionsLeft, rejectsLeft,
                   lastTick, room, otherPlayers, sessionLog,
                   offstage>>

Moved(zs, name, moved) == Rendered(zs, life, draggedCard, name, moved)

DrawCard ==
    /\ Len(zones.library) # 0
    /\ Moved(drawCard(zones), "drawCard", {Head(zones.library).instanceId})

DrawOpeningHand ==
    /\ Len(zones.hand) = 0
    /\ ~(Len(zones.library) < OpeningHandSize)
    /\ Moved(drawOpeningHand(zones), "drawOpeningHand",
             Ids(SubSeq(zones.library, 1, OpeningHandSize)))

ShuffleLibrary ==
    \E half \in RandomHalves : Moved(shuffleLibrary(zones, half), "shuffleLibrary", {})

ResetGame ==
    /\ decksMade < MaxDecks
    /\ \E half \in RandomHalves :
         /\ mounted /\ ~authPending /\ opsLeft > 0
         /\ zones' = [NoZones EXCEPT !.library = createGameCards(decksMade * DeckSize, half)]
         /\ life' = StartingLife
         /\ \E eff \in {SyncEffect(timers, syncTimeoutRef, isReady, zones', life')} :
              timers' = eff.timers /\ syncTimeoutRef' = eff.ref
    /\ decksMade' = decksMade + 1
    /\ opsLeft' = opsLeft - 1
    /\ lastOp' = [name |-> "resetGame", moved |-> {}]
    /\ pendingOps' = IF isReady THEN Append(pendingOps, "resetGame") ELSE pendingOps
    /\ UNCHANGED <<mounted, authPending, subscribed, currentUidRef, isInitializedRef, isReady,
                   draggedCard, lastSyncedStateRef, players, sessionsLeft, rejectsLeft,
                   lastTick, room, otherPlayers, sessionLog,
                   offstage>>

\* the life buttons: setLife((l) => l - 1), setLife((l) => l + 1)
ChangeLife ==
    \E delta \in {-1, 1} : Rendered(zones, life + delta, draggedCard, "setLife", {})

UntapAll == Moved(untapAll(zones), "untapAll", {})

ToggleTapped ==
    \E card \in Pick(zones.battlefield) \cup MenuCards("battlefield") :
        Moved(toggleTapped(zones, card), "toggleTapped", {})

ToggleExileFaceDown ==
    \E card \in Pick(zones.exile) \cup MenuCards("exile") :
        Moved(toggleExileFaceDown(zones, card), "toggleExileFaceDown", {})

PlayCard ==
    \E card \in Pick(zones.hand) \cup MenuCards("hand") :
        Moved(playCard(zones, card), "playCard", {card.instanceId})

ReturnToHand ==
    \E card \in MenuCards("battlefield") :
        Moved(returnToHand(zones, card), "returnToHand", {card.instanceId})

SendToGraveyard ==
    \E from \in {"hand", "battlefield"} : \E card \in MenuCards(from) :
        Moved(sendToGraveyard(zones, card, from), "sendToGraveyard", {card.instanceId})

ReturnFromGraveyard ==
    \E to \in {"hand", "battlefield"} : \E card \in MenuCards("graveyard") :
        Moved(returnFromGraveyard(zones, card, to), "returnFromGraveyard", {card.instanceId})

ExileCard ==
    \E from \in {"hand", "battlefield", "graveyard"} : \E card \in MenuCards(from) :
        \E faceDown \in BOOLEAN :
            Moved(exileCard(zones, card, from, faceDown), "exileCard", {card.instanceId})

ReturnFromExile ==
    \E to \in {"hand", "battlefield"} : \E card \in MenuCards("exile") :
        Moved(returnFromExile(zones, card, to), "returnFromExile", {card.instanceId})

PutOnTopOfLibrary ==
    \E from \in DropZones : \E card \in MenuCards(from) :
        Moved(putOnTopOfLibrary(zones, card, from), "putOnTopOfLibrary", {card.instanceId})

PutOnBottomOfLibrary ==
    \E card \in MenuCards("hand") :
        Moved(putOnBottomOfLibrary(zones, card, "hand"), "putOnBottomOfLibrary",
              {card.instanceId})

\* the library search: a destination button moves the card and then
\* shuffles what is left (moveFromLibrary(...); shuffleLibrary())
MoveFromLibrary ==
    \E card \in Pick(zones.library) : \E to \in DropZones : \E half \in RandomHalves :
        Moved(shuffleLibrary(moveFromLibrary(zones, card, to, FALSE), half),
              "moveFromLibrary", {card.instanceId})

\* the library search's "Put on Top" / "Put on Bottom"
LibraryReorder ==
    \E card \in Pick(zones.library) :
        \/ Moved(LibraryPutOnTop(zones, card), "libraryPutOnTop", {card.instanceId})
        \/ Moved(LibraryPutOnBottom(zones, card), "libraryPutOnBottom", {card.instanceId})

\* onDragStart of a card shown in a zone; nothing clears draggedCard when
\* the drag ends without a drop
DragStart ==
    /\ mounted /\ ~authPending
    /\ \E from \in DragSources : \E card \in Pick(zones[from]) :
         draggedCard' = [card |-> card, from |-> from]
    /\ UNCHANGED <<mounted, authPending, subscribed, currentUidRef, isInitializedRef, isReady,
                   zones, life, timers, syncTimeoutRef, lastSyncedStateRef, players,
                   decksMade, opsLeft, sessionsLeft, rejectsLeft, historyVars, room, otherPlayers, sessionLog,
                   offstage>>

\* onDrop of a zone: handleDrop(to)
Drop ==
    /\ draggedCard # Null
    /\ \E to \in DropZones :
         IF draggedCard.from = to
         THEN /\ mounted /\ ~authPending
              /\ draggedCard' = Null
              /\ UNCHANGED <<mounted, authPending, subscribed, currentUidRef, isInitializedRef,
                             isReady, zones, life, timers, syncTimeoutRef, lastSyncedStateRef,
                             players, boundVars, historyVars, room, otherPlayers, sessionLog,
                             offstage>>
         ELSE Rendered(handleDrop(zones, draggedCard, to), life, Null, "handleDrop",
                       {draggedCard.card.instanceId})

(***************************************************************************)
(* The debounce timer's callback (the sync tick).                          *)
(***************************************************************************)
ScalarKeys == {"handCount", "libraryCount", "life"}

\* variant: a diff that always carries life
BuildDiffWithLife(prev, current) ==
    [k \in {z \in Zones : computeZoneDiff(prev[z], current[z]) # Null}
           \cup {c \in ScalarKeys : prev[c] # current[c]} \cup {"life"} |->
        IF k \in Zones THEN computeZoneDiff(prev[k], current[k]) ELSE current[k]]

\* variant: a diff that leaves handCount and libraryCount out
BuildDiffNoCounts(prev, current) ==
    [k \in {z \in Zones : computeZoneDiff(prev[z], current[z]) # Null}
           \cup {c \in {"life"} : prev[c] # current[c]} |->
        IF k \in Zones THEN computeZoneDiff(prev[k], current[k]) ELSE current[k]]

\* variant: a diff that leaves the scalars out
BuildDiffZonesOnly(prev, current) ==
    [k \in {z \in Zones : computeZoneDiff(prev[z], current[z]) # Null} |->
        computeZoneDiff(prev[k], current[k])]

\* const diff: PlayerStateDiff = {}; if (battlefieldDiff) diff.battlefield = ...;
\* if (prev.handCount !== hand.length) diff.handCount = ...
BuildDiff(prev, current) ==
    [k \in {z \in Zones : computeZoneDiff(prev[z], current[z]) # Null}
           \cup {c \in ScalarKeys : prev[c] # current[c]} |->
        IF k \in Zones THEN computeZoneDiff(prev[k], current[k]) ELSE current[k]]

\* variant: a tick that only ever sends incremental updates
TickUpdatesDiffOnly(prev, current, diff, uid) ==
    IF uid = NoUid \/ prev = Null \/ DOMAIN diff = {} THEN EmptyFn
    ELSE updatePlayerStateDiff(uid, diff)

\* the update the tick hands to the store, EmptyFn when it issues none
TickUpdates(prev, current, diff, uid) ==
    IF uid = NoUid THEN EmptyFn
    ELSE IF prev = Null
    THEN updatePlayerState(uid, current @@ [isOnline |-> TRUE])
    ELSE IF DOMAIN diff # {}
    THEN updatePlayerStateDiff(uid, diff)
    ELSE EmptyFn

\* the early `return` of the callback: a write is due but there is no uid
TickReturnsEarly(prev, diff, uid) ==
    /\ uid = NoUid
    /\ (prev = Null \/ DOMAIN diff # {})

\* accepted: whether the store applies the update the tick issues; the
\* callback does not wait for the outcome
TimerFire(accepted) ==
    \E t \in timers :
    \E prev \in {lastSyncedStateRef} :
    \E current \in {WireState(t.zones, t.life)} :
    \E diff \in {IF prev = Null THEN EmptyFn ELSE BuildDiff(prev, current)} :
    \E updates \in {TickUpdates(prev, current, diff, currentUidRef)} :
    \E issued \in {updates # EmptyFn} :
        /\ accepted \/ (issued /\ rejectsLeft > 0)
        /\ timers' = timers \ {t}
        /\ players' = IF issued /\ accepted THEN ApplyUpdate(players, updates) ELSE players
        /\ lastSyncedStateRef' = IF TickReturnsEarly(prev, diff, currentUidRef)
                                 THEN prev ELSE current
        /\ rejectsLeft' = IF accepted THEN rejectsLeft ELSE rejectsLeft - 1
        /\ lastTick' = [fired    |-> TRUE,
                        writes   |-> IF issued THEN 1 ELSE 0,
                        paths    |-> DOMAIN updates,
                        ops      |-> pendingOps,
                        prevNull |-> prev = Null,
                        changed  |-> IF prev = Null THEN {}
                                     ELSE {k \in Zones \cup ScalarKeys : prev[k] # current[k]},
                        ok       |-> accepted]
        /\ pendingOps' = <<>>
        /\ written' = IF ~issued THEN NoWrites
                      ELSE WritesOf(IF prev = Null THEN "updatePlayerState"
                                    ELSE "updatePlayerStateDiff", updates)
        /\ UNCHANGED <<mounted, authPending, subscribed, currentUidRef, isInitializedRef,
                       isReady, zones, life, draggedCard, room, otherPlayers, syncTimeoutRef,
                       decksMade, opsLeft, sessionsLeft, lastOp, lastInit, leftWith,
                       offstage>>

SyncTick == TimerFire(TRUE)

RejectedSyncTick == TimerFire(FALSE)

(***************************************************************************)
(* One client, a store that accepts every write.                           *)
(***************************************************************************)
Init == MainInit(MaxSessions, 0) /\ DiffIdle

Play ==
    \/ DrawCard \/ DrawOpeningHand \/ ShuffleLibrary \/ ResetGame \/ ChangeLife
    \/ UntapAll \/ ToggleTapped \/ ToggleExileFaceDown \/ PlayCard \/ ReturnToHand
    \/ SendToGraveyard \/ ReturnFromGraveyard \/ ExileCard \/ ReturnFromExile
    \/ PutOnTopOfLibrary \/ PutOnBottomOfLibrary \/ MoveFromLibrary \/ LibraryReorder
    \/ DragStart \/ Drop

Session == Mount \/ SignedIn \/ SnapshotRestore \/ SnapshotCreate \/ Teardown

Next == Session \/ Play \/ SyncTick

Spec == Init /\ [][Next]_vars

(***************************************************************************)
(* One visit of one client, a store that may reject writes of the sync     *)
(* loop.                                                                   *)
(***************************************************************************)
FaultInit == MainInit(1, MaxRejects) /\ DiffIdle

FaultPlay == DrawCard \/ PlayCard \/ ToggleTapped \/ UntapAll \/ ChangeLife

FaultNext == Session \/ FaultPlay \/ SyncTick \/ RejectedSyncTick

FaultSpec == FaultInit /\ [][FaultNext]_vars

(***************************************************************************)
(* The room as others change it: the peer's client syncs its own state,    *)
(* the room listener of this client and of an observer page receive the    *)
(* snapshots.                                                              *)
(***************************************************************************)
\* where the peer's two cards may be: one drawn or not, one played or not
PeerZoneChoices ==
    {[z \in Zones |->
         (IF za = z THEN <<GameCard(901, FALSE, FALSE)>> ELSE <<>>)
         \o (IF zb = z THEN <<GameCard(902, FALSE, FALSE)>> ELSE <<>>)] :
     za \in {"library", "hand"}, zb \in {"library", "battlefield"}}

\* the peer's client writes its full state (its own sync loop)
PeerSync ==
    /\ \E zs \in PeerZoneChoices :
         /\ players' = ApplyUpdate(players,
                           updatePlayerState(Peer, WireState(zs, StartingLife)
                                                   @@ [isOnline |-> TRUE]))
         /\ players' # players
    /\ UNCHANGED <<clientVars, boundVars, historyVars, sessionLog, offstage>>

\* a later room snapshot reaches this client's listener: setRoom, then the
\* ingestion of the other players
RoomSnapshot ==
    /\ subscribed /\ isInitializedRef
    /\ room # players
    /\ room' = players
    /\ otherPlayers' = HydratePeers(players, Me, DeckCardIds)
    /\ UNCHANGED <<mounted, authPending, subscribed, currentUidRef, isInitializedRef, isReady,
                   zones, life, draggedCard, timers, syncTimeoutRef, lastSyncedStateRef,
                   players, boundVars, historyVars, sessionLog, offstage>>

\* ObserverView: hydrateZone without a local deck, cards come from the cache
\* that prefetchCardsById has filled
ObserverHydrate(roomPlayers) ==
    [u \in {v \in DOMAIN roomPlayers : PlayerExists(roomPlayers[v])} |->
        [battlefield |-> hydrateZone(roomPlayers[u].battlefield, DeckCardIds),
         graveyard   |-> hydrateZone(roomPlayers[u].graveyard, DeckCardIds),
         exile       |-> hydrateZone(roomPlayers[u].exile, DeckCardIds),
         hand        |-> <<>>,
         library     |-> <<>>,
         scalars     |-> roomPlayers[u].scalars]]

\* a room snapshot reaches the observer page's listener
ObserverSnapshot ==
    /\ observerRoom # players
    /\ observerRoom' = players
    /\ observerPlayers' = ObserverHydrate(players)
    /\ UNCHANGED <<mainVars, diffVars, serviceVars>>

PeerNext == Session \/ SyncTick \/ PeerSync \/ RoomSnapshot \/ ObserverSnapshot

PeerSpec == Init /\ [][PeerNext]_vars

(***************************************************************************)
(* Leaving and coming back: up to MaxVisits visits of the page by one      *)
(* client, over a store that may hold a game saved at a life total of 0.   *)
(***************************************************************************)
RejoinInit ==
    /\ MainInitWith(MaxVisits, 0, {[player |-> NoPlayer, decks |-> 0],
                                    [player |-> SavedGame, decks |-> 1],
                                    [player |-> SavedGameWithLife(0), decks |-> 1]})
    /\ DiffIdle

RejoinPlay == DrawCard \/ DrawOpeningHand \/ PlayCard \/ ToggleTapped \/ ChangeLife

RejoinNext == Session \/ RejoinPlay \/ SyncTick

RejoinSpec == RejoinInit /\ [][RejoinNext]_vars

(***************************************************************************)
(* The diff engine on its own: two zones A and B, a store that holds A,    *)
(* and the incremental update for computeZoneDiff(A, B) applied to it.     *)
(***************************************************************************)
DiffUid == "u1"

\* instance ids the diff engine's inputs are drawn from
DiffIds == {1, 2, 3}

DiffCards == {GameCard(id, t, f) : id \in DiffIds, t \in BOOLEAN, f \in BOOLEAN}

\* every local zone of at most MaxZoneLen cards, repeated instances included
DiffZoneInputs == UNION {[1..n -> DiffCards] : n \in 0..MaxZoneLen}

DiffInit ==
    /\ MainInit(0, 0) /\ decksMade = 0
    /\ ServiceIdle
    /\ dA \in DiffZoneInputs
    /\ dB \in DiffZoneInputs
    /\ dDiff = Null
    /\ dUpdates = EmptyFn
    /\ dStore = (DiffUid :> [NoPlayer EXCEPT !.battlefield = toWireZone(dA)])
    /\ dDone = FALSE
    /\ dFirst = [done |-> FALSE, diff |-> Null]

\* the sync tick's handling of one zone: diff against the previous snapshot,
\* include the zone in the PlayerStateDiff when the diff is not null, write
DiffApply ==
    /\ ~dDone
    /\ LET zoneDiff == computeZoneDiff(toWireZone(dA), toWireZone(dB))
           diff     == IF zoneDiff # Null THEN ("battlefield" :> zoneDiff) ELSE EmptyFn
           updates  == IF DOMAIN diff # {} THEN updatePlayerStateDiff(DiffUid, diff) ELSE EmptyFn
       IN  /\ dDiff' = zoneDiff
           /\ dUpdates' = updates
           /\ dStore' = ApplyUpdate(dStore, updates)
    /\ dDone' = TRUE
    /\ UNCHANGED <<dA, dB, dFirst, mainVars, observerVars, serviceVars>>

\* computeZoneDiff called with no previous zone
DiffFromNull ==
    /\ dDone /\ ~dFirst.done
    /\ dFirst' = [done |-> TRUE, diff |-> computeZoneDiff(Null, toWireZone(dB))]
    /\ UNCHANGED <<dA, dB, dDiff, dUpdates, dStore, dDone, mainVars, observerVars, serviceVars>>

DiffNext == DiffApply \/ DiffFromNull

DiffSpec == DiffInit /\ [][DiffNext]_vars

(***************************************************************************)
(* The service functions of firebase.ts, one call each, with and without   *)
(* a database.  ref(db, path) throws on a null handle, so a function that  *)
(* reaches it without the guard `if (!db) return` throws.                  *)
(***************************************************************************)
\* the function returned before touching the database
Quiet(fn, returned, delivered) ==
    [fn |-> fn, writes |-> EmptyFn, returned |-> returned, delivered |-> delivered,
     threw |-> FALSE]

\* the function went on to ref(db, ...) and set / update / onValue
UseDb(db, fn, writes, returned, delivered) ==
    IF db = NoDb
    THEN [fn |-> fn, writes |-> EmptyFn, returned |-> "undefined", delivered |-> <<>>,
          threw |-> TRUE]
    ELSE [fn |-> fn, writes |-> writes, returned |-> returned, delivered |-> delivered,
          threw |-> FALSE]

\* variant: a service function without the guard on getDb()
Unguarded(db, quiet, used) == used

\* const db = getDb(); if (!db) <quiet>; ... <used>
Guarded(db, quiet, used) == IF db = NoDb THEN quiet ELSE used

subscribeToRoomCall(db, roomValue) ==
    Guarded(db, Quiet("subscribeToRoom", "noop unsubscribe", <<[arg |-> Null]>>),
                UseDb(db, "subscribeToRoom", EmptyFn, "unsubscribe", <<[arg |-> roomValue]>>))

\* if (!data) callback([]) else callback(Object.values(data))
subscribeToRoomListCall(db, indexValue) ==
    Guarded(db, Quiet("subscribeToRoomList", "noop unsubscribe", <<[arg |-> <<>>]>>),
                UseDb(db, "subscribeToRoomList", EmptyFn, "unsubscribe",
                      <<[arg |-> IF indexValue = Null THEN <<>>
                                 ELSE <<indexValue.r1>>]>>))

\* push(ref(db, 'rooms')).key, then set(rooms/{id}) and set(roomsIndex/{id})
createGameRoomCall(db, roomKey) ==
    Guarded(db, Quiet("createGameRoom", "null", <<>>),
                IF roomKey = "null"
                THEN UseDb(db, "createGameRoom", EmptyFn, "null", <<>>)
                ELSE UseDb(db, "createGameRoom",
                           (<<"rooms", roomKey>> :> roomKey) @@ (<<"roomsIndex", roomKey>> :> roomKey),
                           roomKey, <<>>))

joinGameRoomCall(db, uid, initialState) ==
    Guarded(db, Quiet("joinGameRoom", "undefined", <<>>),
                UseDb(db, "joinGameRoom", joinGameRoomWrites(db, uid, initialState),
                      "undefined", <<>>))

updatePlayerStateCall(db, uid, updates) ==
    Guarded(db, Quiet("updatePlayerState", "undefined", <<>>),
                UseDb(db, "updatePlayerState", updatePlayerStateWrites(db, uid, updates),
                      "undefined", <<>>))

updatePlayerStateDiffCall(db, uid, diff) ==
    Guarded(db, Quiet("updatePlayerStateDiff", "undefined", <<>>),
                UseDb(db, "updatePlayerStateDiff", updatePlayerStateDiffWrites(db, uid, diff),
                      "undefined", <<>>))

setPlayerOnlineStatusCall(db, uid, isOnline) ==
    Guarded(db, Quiet("setPlayerOnlineStatus", "undefined", <<>>),
                UseDb(db, "setPlayerOnlineStatus",
                      setPlayerOnlineStatusWrites(db, uid, isOnline), "undefined", <<>>))

\* variant: an append without the test turnOrder.includes(uid)
addPlayerToTurnOrderCallAlways(db, turnOrder, uid, roomExists) ==
    Guarded(db, Quiet("addPlayerToTurnOrder", "undefined", <<>>),
                IF ~roomExists
                THEN Quiet("addPlayerToTurnOrder", "undefined", <<>>)
                ELSE UseDb(db, "addPlayerToTurnOrder",
                           <<"rooms", RoomId, "turnOrder">> :> Append(turnOrder, uid),
                           "undefined", <<>>))

\* variant: the next index without the remainder
advanceTurnCallNoWrap(db, turnOrderLength, currentTurnIndex) ==
    Guarded(db, Quiet("advanceTurn", "undefined", <<>>),
                IF turnOrderLength <= 0
                THEN Quiet("advanceTurn", "undefined", <<>>)
                ELSE UseDb(db, "advanceTurn",
                           <<"rooms", RoomId, "currentTurnIndex">> :> (currentTurnIndex + 1),
                           "undefined", <<>>))

\* variant: a join that adds the caller to an empty turn order only
addPlayerToTurnOrderCallFirstOnly(db, turnOrder, uid, roomExists) ==
    Guarded(db, Quiet("addPlayerToTurnOrder", "undefined", <<>>),
            IF ~roomExists \/ turnOrder # <<>>
            THEN Quiet("addPlayerToTurnOrder", "undefined", <<>>)
            ELSE UseDb(db, "addPlayerToTurnOrder",
                       (<<"rooms", RoomId, "turnOrder">> :> Append(turnOrder, uid)),
                       "undefined", <<>>))

\* if (!db || !roomExists) return; if (turnOrder.includes(uid)) return;
\* update(rooms/{roomId}, { turnOrder: [...turnOrder, uid] })
addPlayerToTurnOrderCall(db, turnOrder, uid, roomExists) ==
    Guarded(db, Quiet("addPlayerToTurnOrder", "undefined", <<>>),
                IF ~roomExists \/ uid \in Range(turnOrder)
                THEN Quiet("addPlayerToTurnOrder", "undefined", <<>>)
                ELSE UseDb(db, "addPlayerToTurnOrder",
                           <<"rooms", RoomId, "turnOrder">> :> Append(turnOrder, uid),
                           "undefined", <<>>))

\* if (!db) return; if (turnOrderLength <= 0) return;
\* update(rooms/{roomId}, { currentTurnIndex: (currentTurnIndex + 1) % turnOrderLength })
advanceTurnCall(db, turnOrderLength, currentTurnIndex) ==
    Guarded(db, Quiet("advanceTurn", "undefined", <<>>),
                IF turnOrderLength <= 0
                THEN Quiet("advanceTurn", "undefined", <<>>)
                ELSE UseDb(db, "advanceTurn",
                           <<"rooms", RoomId, "currentTurnIndex">> :>
                               ((currentTurnIndex + 1) % turnOrderLength),
                           "undefined", <<>>))

Uids == {Me, Peer}

TurnOrders == {<<>>, <<Me>>, <<Peer>>, <<Me, Peer>>, <<Peer, Me>>}

ServiceInit ==
    /\ MainInit(0, 0) /\ decksMade = 0
    /\ dA = <<>> /\ dB = <<>> /\ dDiff = Null /\ dUpdates = EmptyFn
    /\ dStore = (Me :> NoPlayer) /\ dDone = TRUE
    /\ dFirst = [done |-> TRUE, diff |-> Null]
    /\ sDb \in {NoDb, Db}
    /\ sResult = NoCall
    /\ HydrateIdle

Called(result) ==
    /\ sResult = NoCall
    /\ sResult' = result
    /\ UNCHANGED <<sDb, hydrateVars, unitVars, mainVars, diffVars, observerVars>>

CallSubscribeToRoom ==
    \E roomValue \in {Null, players} : Called(subscribeToRoomCall(sDb, roomValue))

CallSubscribeToRoomList ==
    \E indexValue \in {Null, [r1 |-> [id |-> RoomId]]} :
        Called(subscribeToRoomListCall(sDb, indexValue))

CallCreateGameRoom ==
    \E roomKey \in {"null", RoomId} : Called(createGameRoomCall(sDb, roomKey))

CallJoinGameRoom ==
    \E uid \in Uids, n \in 0..MaxZoneLen :
        Called(joinGameRoomCall(sDb, uid,
                   InitialState([i \in 1..n |-> GameCard(i, FALSE, FALSE)])))

CallUpdatePlayerState ==
    \E uid \in Uids, hand \in DiffZoneInputs :
        Called(updatePlayerStateCall(sDb, uid,
                   WireState([NoZones EXCEPT !.hand = hand], StartingLife)
                   @@ [isOnline |-> TRUE]))

CallUpdatePlayerStateDiff ==
    \E uid \in Uids, hand \in DiffZoneInputs :
        Called(updatePlayerStateDiffCall(sDb, uid,
                   BuildDiff(WireState(NoZones, StartingLife),
                             WireState([NoZones EXCEPT !.hand = hand], StartingLife))))

CallSetPlayerOnlineStatus ==
    \E uid \in Uids, isOnline \in BOOLEAN :
        Called(setPlayerOnlineStatusCall(sDb, uid, isOnline))

CallAddPlayerToTurnOrder ==
    \E turnOrder \in TurnOrders, uid \in Uids, roomExists \in BOOLEAN :
        Called(addPlayerToTurnOrderCall(sDb, turnOrder, uid, roomExists))

CallAdvanceTurn ==
    \E turnOrderLength \in 0..2, currentTurnIndex \in 0..1 :
        Called(advanceTurnCall(sDb, turnOrderLength, currentTurnIndex))

ServiceNext ==
    \/ CallSubscribeToRoom \/ CallSubscribeToRoomList \/ CallCreateGameRoom
    \/ CallJoinGameRoom \/ CallUpdatePlayerState \/ CallUpdatePlayerStateDiff
    \/ CallSetPlayerOnlineStatus \/ CallAddPlayerToTurnOrder \/ CallAdvanceTurn

ServiceSpec == ServiceInit /\ [][ServiceNext]_vars

(***************************************************************************)
(* hydrateZone on every form a stored zone can have: absent, the legacy    *)
(* array of compact cards, and the {cardsById, order} object.              *)
(***************************************************************************)
\* a cardId that is not in the local deck
PeerCardId == 999

\* instanceIds of the stored cards; order may also name an id without a card
HydrateIds == {1, 2}

HydrateOrderIds == {1, 2, 3}

MaxHydrateLen == 2

\* type FirebaseGameCard = { instanceId, cardId, tapped, faceDown }
HydrateWires(id) ==
    {[instanceId |-> id, cardId |-> c, tapped |-> t, faceDown |-> FALSE] :
        c \in {CardIdOf(1), PeerCardId}, t \in BOOLEAN}

ArrayZones ==
    {[AbsentZone EXCEPT !.form = "array", !.array = a] :
        a \in UNION {[1..n -> UNION {HydrateWires(id) : id \in HydrateIds}] :
                        n \in 0..MaxHydrateLen}}

HydrateCardsById ==
    UNION {{f \in [ids -> UNION {HydrateWires(id) : id \in ids}] :
                \A id \in ids : f[id].instanceId = id} : ids \in SUBSET HydrateIds}

WireZones ==
    {[AbsentZone EXCEPT !.form = "wire", !.cardsById = c, !.order = o] :
        c \in HydrateCardsById,
        o \in UNION {[1..n -> HydrateOrderIds] : n \in 0..MaxHydrateLen}}

\* undefined: what cardsById[id] yields for an id without an entry
Undefined == [undefined |-> TRUE]

\* (asWire?.order || []).map((id) => asWire?.cardsById?.[id])
WireLookups(cardsById, order) ==
    [i \in DOMAIN order |->
        IF order[i] \in DOMAIN cardsById THEN cardsById[order[i]] ELSE Undefined]

\* the lookups without the filter
KeepAll(entries) == entries

\* .filter((c) => Boolean(c))
FilterBoolean(entries) == SelectSeq(entries, LAMBDA c : c # Undefined)

\* wires.map((wire) => ({instanceId: wire.instanceId, card, tapped, faceDown})):
\* wire.cardId of an undefined wire throws a TypeError
hydrateWires(wires, resolvable) ==
    IF \E i \in DOMAIN wires : wires[i] = Undefined
    THEN [NoHydrate EXCEPT !.done = TRUE, !.threw = TRUE, !.resolvable = resolvable]
    ELSE [NoHydrate EXCEPT !.done = TRUE, !.resolvable = resolvable,
            !.cards = [i \in DOMAIN wires |->
                          [instanceId |-> wires[i].instanceId,
                           card       |-> ResolveCard(wires[i].cardId, resolvable),
                           tapped     |-> wires[i].tapped,
                           faceDown   |-> wires[i].faceDown]]]

\* if (!zone) return []; asArray ? asArray : the filtered lookups of order
hydrateStoredZone(stored, resolvable) ==
    IF stored.form = "absent"
    THEN [NoHydrate EXCEPT !.done = TRUE, !.resolvable = resolvable]
    ELSE hydrateWires(IF stored.form = "array"
                      THEN stored.array
                      ELSE FilterBoolean(WireLookups(stored.cardsById, stored.order)),
                      resolvable)

HydrateInit ==
    /\ MainInit(0, 0) /\ decksMade = 0
    /\ dA = <<>> /\ dB = <<>> /\ dDiff = Null /\ dUpdates = EmptyFn
    /\ dStore = (Me :> NoPlayer) /\ dDone = TRUE
    /\ dFirst = [done |-> TRUE, diff |-> Null]
    /\ sDb = Db /\ sResult = [NoCall EXCEPT !.fn = "idle"]
    /\ hZone \in {AbsentZone} \cup ArrayZones \cup WireZones
    /\ hCache \in {{}, {PeerCardId}}
    /\ hResult = NoHydrate
    /\ UnitsIdleBut("none")

\* MultiplayerGame.tsx: localCards.get(id) || getCachedCardById(id) || createUnknownCard(id)
HydrateInGame ==
    /\ ~hResult.done
    /\ hResult' = hydrateStoredZone(hZone, DeckCardIds \cup hCache)
    /\ UNCHANGED <<hZone, hCache, sDb, sResult, unitVars, mainVars, diffVars, observerVars>>

\* ObserverView.tsx: getCachedCardById(id) || createUnknownCard(id)
HydrateInObserver ==
    /\ ~hResult.done
    /\ hResult' = hydrateStoredZone(hZone, hCache)
    /\ UNCHANGED <<hZone, hCache, sDb, sResult, unitVars, mainVars, diffVars, observerVars>>

HydrateNext == HydrateInGame \/ HydrateInObserver

HydrateSpec == HydrateInit /\ [][HydrateNext]_vars

(***************************************************************************)
(* shuffleLibrary: setLibrary((prev) => shuffleArray(prev)), with every    *)
(* value Math.random() can give at every turn of the loop.                 *)
(***************************************************************************)
MaxShuffleLen == 3

\* libraries of up to MaxShuffleLen cards; an instanceId may be held twice
ShuffleInputs ==
    UNION {[1..n -> {GameCard(id, FALSE, FALSE) : id \in 1..MaxShuffleLen}] :
              n \in 0..MaxShuffleLen}

ShuffleInit ==
    /\ UnitInit("shuffle")
    /\ \E lib \in ShuffleInputs :
         shZones = [NoZones EXCEPT !.library = lib,
                                   !.hand = <<GameCard(MaxShuffleLen + 1, FALSE, FALSE)>>,
                                   !.battlefield = <<GameCard(MaxShuffleLen + 2, TRUE, FALSE)>>]
    /\ shBefore = shZones
    /\ shArray = <<>> /\ shShuffled = <<>> /\ shI = 0
    /\ shPhase = "idle"

\* shuffleArray(prev): const shuffled = [...array]; i = shuffled.length - 1
ShuffleCall ==
    /\ shPhase = "idle"
    /\ shArray' = shZones.library
    /\ shShuffled' = shZones.library
    /\ shI' = Len(shZones.library)
    /\ shPhase' = "loop"
    /\ UNCHANGED <<shZones, shBefore>>
    /\ UNCHANGED <<sDb, sResult, hydrateVars, turnVars, lobbyVars, fetchVars, prefetchVars,
                   deckVars, visitVars, ingestVars, mainVars,
                diffVars, observerVars>>

\* one turn of the loop: j = floor(Math.random() * (i + 1)), swap, i--
ShuffleStep ==
    /\ shPhase = "loop" /\ shI > 1
    /\ \E j \in 1..shI : shShuffled' = Swap(shShuffled, shI, j)
    /\ shI' = shI - 1
    /\ UNCHANGED <<shZones, shBefore, shArray, shPhase>>
    /\ UNCHANGED <<sDb, sResult, hydrateVars, turnVars, lobbyVars, fetchVars, prefetchVars,
                   deckVars, visitVars, ingestVars, mainVars,
                diffVars, observerVars>>

\* return shuffled; setLibrary takes it
ShuffleReturn ==
    /\ shPhase = "loop" /\ shI <= 1
    /\ shZones' = [shZones EXCEPT !.library = shShuffled]
    /\ shPhase' = "set"
    /\ UNCHANGED <<shBefore, shArray, shShuffled, shI>>
    /\ UNCHANGED <<sDb, sResult, hydrateVars, turnVars, lobbyVars, fetchVars, prefetchVars,
                   deckVars, visitVars, ingestVars, mainVars,
                diffVars, observerVars>>

ShuffleNext == ShuffleCall \/ ShuffleStep \/ ShuffleReturn

ShuffleSpec == ShuffleInit /\ [][ShuffleNext]_vars

(***************************************************************************)
(* The turn order: every room snapshot a client's listener handles calls   *)
(* addPlayerToTurnOrder with the turnOrder of that snapshot, and the End   *)
(* Turn button calls advanceTurn with the room the client last rendered.   *)
(* A snapshot is on its way for a while, so the store may have moved on    *)
(* when the write made from it arrives.                                    *)
(***************************************************************************)
Third == "u3"

TurnClients == {Me, Peer, Third}

\* the value at a path of the written map, or the fallback
Written(writes, path, fallback) ==
    IF path \in DOMAIN writes THEN writes[path] ELSE fallback

\* createGameRoom: turnOrder: [], currentTurnIndex: 0
TurnInit ==
    /\ UnitInit("turn")
    /\ tOrder = <<>> /\ tIndex = 0
    /\ tInbox = [c \in TurnClients |-> NoSnap]
    /\ tRoom = [c \in TurnClients |-> NoSnap]
    /\ tLast = NoTurnCall

TurnUnchanged ==
    UNCHANGED <<sDb, sResult, hydrateVars, shuffleVars, lobbyVars, fetchVars, prefetchVars,
                deckVars, visitVars, ingestVars, mainVars,
                diffVars, observerVars>>

\* onValue: the store sends the room as it is now to a client's listener
TurnNotify(c) ==
    /\ tInbox[c] # [has |-> TRUE, order |-> tOrder, index |-> tIndex]
    /\ tRoom[c] # [has |-> TRUE, order |-> tOrder, index |-> tIndex]
    /\ tInbox' = [tInbox EXCEPT ![c] = [has |-> TRUE, order |-> tOrder, index |-> tIndex]]
    /\ UNCHANGED <<tOrder, tIndex, tRoom, tLast>>
    /\ TurnUnchanged

\* the subscribeToRoom callback: setRoom(roomData);
\* addPlayerToTurnOrder(roomId, roomData.turnOrder or [], user.uid, true)
TurnCallback(c) ==
    /\ tInbox[c].has
    /\ \E call \in {addPlayerToTurnOrderCall(Db, tInbox[c].order, c, TRUE)} :
         /\ tOrder' = Written(call.writes, <<"rooms", RoomId, "turnOrder">>, tOrder)
         /\ tLast' = [fn |-> "addPlayerToTurnOrder", uid |-> c,
                      order |-> tInbox[c].order, index |-> tInbox[c].index,
                      wrote |-> call.writes # EmptyFn,
                      wroteOrder |-> Written(call.writes, <<"rooms", RoomId, "turnOrder">>, <<>>),
                      wroteIndex |-> 0]
    /\ tRoom' = [tRoom EXCEPT ![c] = tInbox[c]]
    /\ tInbox' = [tInbox EXCEPT ![c] = NoSnap]
    /\ UNCHANGED tIndex
    /\ TurnUnchanged

\* the End Turn button is disabled unless the rendered room names this client
\* at turnOrder[currentTurnIndex || 0]
EndTurnEnabled(c) ==
    /\ tRoom[c].has /\ Len(tRoom[c].order) > 0
    /\ tRoom[c].index + 1 \in DOMAIN tRoom[c].order
    /\ tRoom[c].order[tRoom[c].index + 1] = c

\* endTurn: advanceTurn(roomId, room.turnOrder.length, room.currentTurnIndex || 0)
TurnEnd(c) ==
    /\ EndTurnEnabled(c)
    /\ \E call \in {advanceTurnCall(Db, Len(tRoom[c].order), tRoom[c].index)} :
         /\ tIndex' = Written(call.writes, <<"rooms", RoomId, "currentTurnIndex">>, tIndex)
         /\ tLast' = [fn |-> "advanceTurn", uid |-> c,
                      order |-> tRoom[c].order, index |-> tRoom[c].index,
                      wrote |-> call.writes # EmptyFn,
                      wroteOrder |-> <<>>,
                      wroteIndex |-> Written(call.writes, <<"rooms", RoomId, "currentTurnIndex">>, 0)]
    /\ UNCHANGED <<tOrder, tInbox, tRoom>>
    /\ TurnUnchanged

TurnNext ==
    \E c \in TurnClients : TurnNotify(c) \/ TurnCallback(c) \/ TurnEnd(c)

TurnSpec == TurnInit /\ [][TurnNext]_vars

\* the joins alone: clients that connect and do not end a turn
JoinNext ==
    \E c \in TurnClients : TurnNotify(c) \/ TurnCallback(c)

\* connected clients keep receiving room snapshots and their listeners keep
\* running: a snapshot the store has for a client is delivered, a delivered
\* snapshot is handled
JoinLiveSpec ==
    /\ TurnInit /\ [][JoinNext]_vars
    /\ \A c \in TurnClients : WF_vars(TurnNotify(c)) /\ WF_vars(TurnCallback(c))

(***************************************************************************)
(* The lobby: createGameRoom, the room list, handleCancelRoom and          *)
(* deleteGameRoom, with the store applying the access rules to each write. *)
(***************************************************************************)
LobbyClients == {Me, Peer}

\* push(roomsRef).key: a key is given once
LobbyRooms == {"r1", "r2"}

\* the two lobby pages: the one that tests createdByUid before it calls
\* deleteGameRoom, and the one that calls it after the confirm alone
LobbyPages == {"checked", "unchecked"}

\* variant: the rule of turnOrder and currentTurnIndex, auth != null
RoomWriteAllowedToAll(auth, data, newData) == auth # NoUid

\* rooms/$roomId and roomsIndex/$roomId .write: auth != null &&
\* ((!data.exists() && newData.createdByUid === auth.uid) ||
\*  (data.exists() && data.createdByUid === auth.uid))
RoomWriteAllowed(auth, data, newData) ==
    /\ auth # NoUid
    /\ \/ ~data.exists /\ newData.exists /\ newData.createdByUid = auth
       \/ data.exists /\ data.createdByUid = auth

\* remove(ref): the value after a remove the rules were asked about
AfterRemove(auth, data) ==
    IF RoomWriteAllowed(auth, data, NoRoom)
    THEN [NoRoom EXCEPT !.createdByUid = "removed"]
    ELSE data

LobbyInit ==
    /\ UnitInit("lobby")
    /\ cRooms = [r \in LobbyRooms |-> NoRoom]
    /\ cIndex = [r \in LobbyRooms |-> NoRoom]
    /\ cList = [c \in LobbyClients |-> [r \in LobbyRooms |-> NoRoom]]
    /\ cLast = NoCancel

LobbyUnchanged ==
    UNCHANGED <<sDb, sResult, hydrateVars, shuffleVars, turnVars, fetchVars, prefetchVars,
                deckVars, visitVars, ingestVars, mainVars,
                diffVars, observerVars>>

\* handleCreateRoom: createGameRoom(name, user.uid) sets rooms/{roomId} and
\* roomsIndex/{roomId}, both with createdByUid
LobbyCreateRoom(c, r) ==
    /\ cRooms[r] = NoRoom /\ cIndex[r] = NoRoom
    /\ \E created \in {[exists |-> TRUE, createdByUid |-> c]} :
         /\ cRooms' = [cRooms EXCEPT ![r] = IF RoomWriteAllowed(c, cRooms[r], created)
                                            THEN created ELSE cRooms[r]]
         /\ cIndex' = [cIndex EXCEPT ![r] = IF RoomWriteAllowed(c, cIndex[r], created)
                                            THEN created ELSE cIndex[r]]
    /\ UNCHANGED <<cList, cLast>>
    /\ LobbyUnchanged

\* subscribeToRoomList callback: setRooms(roomList)
LobbyList(c) ==
    /\ cList[c] # [r \in LobbyRooms |-> IF cIndex[r].exists THEN cIndex[r] ELSE NoRoom]
    /\ cList' = [cList EXCEPT ![c] =
                    [r \in LobbyRooms |-> IF cIndex[r].exists THEN cIndex[r] ELSE NoRoom]]
    /\ UNCHANGED <<cRooms, cIndex, cLast>>
    /\ LobbyUnchanged

\* whether handleCancelRoom reaches deleteGameRoom: the checked page returns
\* when !uid || !room?.createdByUid || room.createdByUid !== uid
ReachesDelete(page, auth, listed, confirmed) ==
    /\ confirmed
    /\ page = "checked" => (auth # NoUid /\ listed.createdByUid = auth)

\* handleCancelRoom of a listed room, by a signed-in user or, on the
\* unchecked page, by one that is not signed in; deleteGameRoom removes
\* rooms/{roomId} and roomsIndex/{roomId}
LobbyCancel(c, r, page, auth, confirmed) ==
    /\ cList[c][r].exists
    /\ \E issued \in {ReachesDelete(page, auth, cList[c][r], confirmed)} :
         /\ cRooms' = [cRooms EXCEPT ![r] = IF issued THEN AfterRemove(auth, cRooms[r])
                                                      ELSE cRooms[r]]
         /\ cIndex' = [cIndex EXCEPT ![r] = IF issued THEN AfterRemove(auth, cIndex[r])
                                                      ELSE cIndex[r]]
         /\ cLast' = [fn |-> "cancel", by |-> auth, room |-> r, page |-> page,
                      creator |-> cRooms[r].createdByUid, issued |-> issued,
                      removedRoom |-> cRooms[r].exists /\ ~cRooms'[r].exists,
                      removedIndex |-> cIndex[r].exists /\ ~cIndex'[r].exists]
    /\ UNCHANGED cList
    /\ LobbyUnchanged

LobbyNext ==
    \/ \E c \in LobbyClients, r \in LobbyRooms : LobbyCreateRoom(c, r)
    \/ \E c \in LobbyClients : LobbyList(c)
    \/ \E c \in LobbyClients, r \in LobbyRooms, page \in LobbyPages, confirmed \in BOOLEAN :
          \E auth \in (IF page = "checked" THEN {c} ELSE {c, NoUid}) :
              LobbyCancel(c, r, page, auth, confirmed)

LobbySpec == LobbyInit /\ [][LobbyNext]_vars

(***************************************************************************)
(* rateLimitedFetch with several callers: each reads the clock, waits on a *)
(* timer when the last request is too recent, then sets lastRequestTime    *)
(* and calls fetch.                                                        *)
(***************************************************************************)
\* const MIN_REQUEST_INTERVAL_MS = 100
MIN_REQUEST_INTERVAL_MS == 100

\* the step of the clock, in ms
ClockStepMs == 50

\* the clock stops here
MaxClockMs == 400

FetchCallers == {1, 2, 3}

FetchInit ==
    /\ UnitInit("fetch")
    /\ fNow = MIN_REQUEST_INTERVAL_MS
    /\ lastRequestTime = 0
    /\ fCallers = [k \in FetchCallers |-> [at |-> "idle", wakeAt |-> 0]]
    /\ fStarts = <<>>

FetchUnchanged ==
    UNCHANGED <<sDb, sResult, hydrateVars, shuffleVars, turnVars, lobbyVars, prefetchVars,
                deckVars, visitVars, ingestVars, mainVars,
                diffVars, observerVars>>

ClockTick ==
    /\ fNow < MaxClockMs
    /\ fNow' = fNow + ClockStepMs
    /\ UNCHANGED <<lastRequestTime, fCallers, fStarts>>
    /\ FetchUnchanged

\* lastRequestTime = Date.now(); return fetch(url, options)
StartFetch(k) ==
    /\ lastRequestTime' = fNow
    /\ fStarts' = Append(fStarts, fNow)
    /\ fCallers' = [fCallers EXCEPT ![k] = [at |-> "fetching", wakeAt |-> 0]]

\* a call: now - lastRequestTime < MIN_REQUEST_INTERVAL_MS ? await the timer
\* of the remaining time : go on
FetchCall(k) ==
    /\ fCallers[k].at = "idle"
    /\ IF fNow - lastRequestTime < MIN_REQUEST_INTERVAL_MS
       THEN /\ fCallers' = [fCallers EXCEPT ![k] =
                               [at |-> "waiting",
                                wakeAt |-> fNow + (MIN_REQUEST_INTERVAL_MS - (fNow - lastRequestTime))]]
            /\ UNCHANGED <<lastRequestTime, fStarts>>
       ELSE StartFetch(k)
    /\ UNCHANGED fNow
    /\ FetchUnchanged

\* the timer of a waiting caller has run out: the caller goes on
FetchWake(k) ==
    /\ fCallers[k].at = "waiting"
    /\ fNow >= fCallers[k].wakeAt
    /\ StartFetch(k)
    /\ UNCHANGED fNow
    /\ FetchUnchanged

FetchNext ==
    \/ ClockTick
    \/ \E k \in FetchCallers : FetchCall(k) \/ FetchWake(k)

FetchSpec == FetchInit /\ [][FetchNext]_vars

(***************************************************************************)
(* prefetchCardsById: the distinct ids that are not cached are fetched one *)
(* after the other with getCardById, each inside try / catch.              *)
(***************************************************************************)
MaxPrefetchLen == 3

\* an id that is the empty string: filter(Boolean) drops it
EmptyId == 0

PrefetchIds == {EmptyId, CardIdOf(1), PeerCardId}

\* what a request of a card can come to: response.ok, status 404, another
\* status, a fetch that rejects
FetchOutcomes == {"ok", "notFound", "apiError", "networkError"}

\* Array.from(new Set(ids)): the first occurrence of every id, in order
RECURSIVE Unique(_)
Unique(ids) ==
    IF ids = <<>> THEN <<>>
    ELSE LET front == Unique(SubSeq(ids, 1, Len(ids) - 1))
             last  == ids[Len(ids)]
         IN  IF last \in Range(front) THEN front ELSE Append(front, last)

\* unique.filter(Boolean).filter((id) => !cardCache.has(id))
Missing(ids, cache) ==
    SelectSeq(Unique(ids), LAMBDA id : id # EmptyId /\ id \notin DOMAIN cache)

\* getCardById: the cached card, or a request: 404 returns null, another
\* failure throws, a card is put in the cache under its id
getCardById(cache, id, outcome) ==
    IF id \in DOMAIN cache
    THEN [cache |-> cache, threw |-> FALSE, requested |-> FALSE]
    ELSE [cache |-> IF outcome = "ok" THEN (id :> KnownCard(id)) @@ cache ELSE cache,
          threw |-> outcome \in {"apiError", "networkError"},
          requested |-> TRUE]

\* variant: the loop body without try / catch
Uncaught(result) == result

\* try { await getCardById(id) } catch { }
Caught(result) == [result EXCEPT !.threw = FALSE]

PrefetchInit ==
    /\ UnitInit("prefetch")
    /\ pIds \in UNION {[1..n -> PrefetchIds] : n \in 0..MaxPrefetchLen}
    /\ \E cached \in SUBSET (PrefetchIds \ {EmptyId}) :
         cardCache = [id \in cached |-> KnownCard(id)]
    /\ pBefore = EmptyFn /\ pMissing = <<>> /\ pFetched = EmptyFn
    /\ pPhase = "idle"

PrefetchUnchanged ==
    UNCHANGED <<sDb, sResult, hydrateVars, shuffleVars, turnVars, lobbyVars, fetchVars,
                deckVars, visitVars, ingestVars, mainVars,
                diffVars, observerVars>>

\* const unique = ...; const missing = ...
PrefetchCall ==
    /\ pPhase = "idle"
    /\ pMissing' = Missing(pIds, cardCache)
    /\ pBefore' = cardCache
    /\ pPhase' = "loop"
    /\ UNCHANGED <<pIds, cardCache, pFetched>>
    /\ PrefetchUnchanged

\* one turn of for (const id of missing)
PrefetchAttempt ==
    /\ pPhase = "loop" /\ pMissing # <<>>
    /\ \E outcome \in FetchOutcomes :
         \E result \in {Caught(getCardById(cardCache, Head(pMissing), outcome))} :
            /\ cardCache' = result.cache
            /\ pFetched' = IF result.requested
                           THEN (Head(pMissing) :> outcome) @@ pFetched ELSE pFetched
            /\ pPhase' = IF result.threw THEN "rejected" ELSE "loop"
    /\ pMissing' = Tail(pMissing)
    /\ UNCHANGED <<pIds, pBefore>>
    /\ PrefetchUnchanged

\* the end of the loop: the promise resolves
PrefetchResolve ==
    /\ pPhase = "loop" /\ pMissing = <<>>
    /\ pPhase' = "resolved"
    /\ UNCHANGED <<pIds, cardCache, pBefore, pMissing, pFetched>>
    /\ PrefetchUnchanged

\* while the loop awaits, a getCardById of another caller completes
OtherCallerFetches ==
    /\ pPhase = "loop"
    /\ \E id \in PrefetchIds \ {EmptyId}, outcome \in FetchOutcomes :
         \E result \in {getCardById(cardCache, id, outcome)} :
            /\ result.requested
            /\ cardCache' = result.cache
            /\ pFetched' = (id :> outcome) @@ pFetched
    /\ UNCHANGED <<pIds, pBefore, pMissing, pPhase>>
    /\ PrefetchUnchanged

PrefetchNext == PrefetchCall \/ PrefetchAttempt \/ PrefetchResolve \/ OtherCallerFetches

PrefetchSpec == PrefetchInit /\ [][PrefetchNext]_vars

(***************************************************************************)
(* saveCloudDeck and deleteCloudDeck of one user: each call loads the      *)
(* user's decks, decides on what it loaded, then writes.  Two calls may be *)
(* in progress at once (two decks copied, two pages open).                 *)
(***************************************************************************)
\* const MAX_CLOUD_DECKS = 5
MAX_CLOUD_DECKS == 5

\* keys push() gives in all
MaxDeckKeys == 6

\* deck.id of the decks the calls are about: one that is stored from the
\* start, one that may be, one that is not
DeckIds == {1, MAX_CLOUD_DECKS, MAX_CLOUD_DECKS + 1}

DeckCalls == {1, 2}

NoDeckCall == [fn |-> "none", deck |-> 0, existing |-> EmptyFn, success |-> FALSE]

\* existingDecks.findIndex((d) => d.id === deck.id), as the odId found or 0
FindDeck(existing, deckId) ==
    IF \E k \in DOMAIN existing : existing[k] = deckId
    THEN CHOOSE k \in DOMAIN existing :
            /\ existing[k] = deckId
            /\ \A j \in DOMAIN existing : existing[j] = deckId => k <= j
    ELSE 0

\* if (existingIndex < 0 && existingDecks.length >= MAX_CLOUD_DECKS) return failure
SaveRefused(existing, deckId) ==
    FindDeck(existing, deckId) = 0 /\ Cardinality(DOMAIN existing) >= MAX_CLOUD_DECKS

DecksInit ==
    /\ UnitInit("decks")
    /\ \E n \in {MAX_CLOUD_DECKS - 1, MAX_CLOUD_DECKS} :
         /\ userDecks = [k \in 1..n |-> k]
         /\ kNextKey = n + 1
    /\ kCalls = [c \in DeckCalls |-> NoDeckCall]

DecksUnchanged ==
    UNCHANGED <<sDb, sResult, hydrateVars, shuffleVars, turnVars, lobbyVars, fetchVars,
                prefetchVars, visitVars, ingestVars, mainVars,
                diffVars, observerVars>>

\* saveCloudDeck / deleteCloudDeck up to: const existingDecks = await loadCloudDecks()
DeckCallLoads(c, fn, deckId) ==
    /\ kCalls[c].fn \in {"none", "saved", "deleted"}
    /\ kCalls' = [kCalls EXCEPT ![c] = [fn |-> fn, deck |-> deckId, existing |-> userDecks,
                                        success |-> FALSE]]
    /\ UNCHANGED <<userDecks, kNextKey>>
    /\ DecksUnchanged

\* the rest of saveCloudDeck: refuse, or set userDecks/{uid}/{odId} with the
\* odId found or a new key
DeckSaveWrites(c) ==
    /\ kCalls[c].fn = "save"
    /\ IF SaveRefused(kCalls[c].existing, kCalls[c].deck)
       THEN /\ kCalls' = [kCalls EXCEPT ![c].fn = "saved", ![c].success = FALSE]
            /\ UNCHANGED <<userDecks, kNextKey>>
       ELSE /\ kNextKey <= MaxDeckKeys
            /\ \E found \in {FindDeck(kCalls[c].existing, kCalls[c].deck)} :
                 \E odId \in {IF found # 0 THEN found ELSE kNextKey} :
                    /\ userDecks' = (odId :> kCalls[c].deck) @@ userDecks
                    /\ kNextKey' = IF found # 0 THEN kNextKey ELSE kNextKey + 1
            /\ kCalls' = [kCalls EXCEPT ![c].fn = "saved", ![c].success = TRUE]
    /\ DecksUnchanged

\* the rest of deleteCloudDeck: 'Deck not found', or remove userDecks/{uid}/{odId}
DeckDeleteWrites(c) ==
    /\ kCalls[c].fn = "delete"
    /\ \E found \in {FindDeck(kCalls[c].existing, kCalls[c].deck)} :
         /\ userDecks' = [k \in DOMAIN userDecks \ {found} |-> userDecks[k]]
         /\ kCalls' = [kCalls EXCEPT ![c].fn = "deleted", ![c].success = (found # 0)]
    /\ UNCHANGED kNextKey
    /\ DecksUnchanged

DecksNext ==
    \E c \in DeckCalls :
        \/ \E fn \in {"save", "delete"}, deckId \in DeckIds : DeckCallLoads(c, fn, deckId)
        \/ DeckSaveWrites(c)
        \/ DeckDeleteWrites(c)

DecksSpec == DecksInit /\ [][DecksNext]_vars

(***************************************************************************)
(* One room from its creation to its cancellation: players open the game   *)
(* page, sign in, listen to the room, join, sync and leave, while the      *)
(* creator cancels the room from the lobby.  The store applies the access  *)
(* rules of the README when they are deployed.                             *)
(***************************************************************************)
VisitClients == {Peer, Third}

NoSnapshot == [kind |-> "none", order |-> <<>>, player |-> NoPlayer]

\* the component of a player who has not opened the page
AwayClient ==
    [mounted |-> FALSE, signing |-> FALSE, listening |-> FALSE, uidRef |-> FALSE,
     init |-> FALSE, timer |-> FALSE, left |-> FALSE,
     inbox |-> NoSnapshot, seen |-> NoSnapshot, local |-> WireState(NoZones, StartingLife)]

\* what an earlier game of a player left in the room: joined, drew a card,
\* synced and went offline
SavedVisit(uid) ==
    LET gameCards == createGameCards(0, 1)
        joined    == joinGameRoom(uid, InitialState(gameCards))
        played    == WireState([NoZones EXCEPT !.library = Tail(gameCards),
                                                   !.hand = <<Head(gameCards)>>],
                               StartingLife)
    IN  PlayerAfter(joined, uid, updatePlayerState(uid, played @@ [isOnline |-> FALSE]))

\* rooms/$roomId/players/$odId .write: auth != null &&
\* (data.child('uid').val() === auth.uid ||
\*  (!data.exists() && newData.child('uid').val() === auth.uid))
PlayerWriteAllowed(auth, data, newData) ==
    /\ auth # NoUid
    /\ \/ "uid" \in DOMAIN data.scalars /\ data.scalars.uid = auth
       \/ ~PlayerExists(data) /\ "uid" \in DOMAIN newData.scalars /\ newData.scalars.uid = auth

\* the same rule under roomsIndex, on the fields a summary stores; the
\* summary under a uid stores that uid
IndexWriteAllowed(auth, owner, fields, newFields) ==
    /\ auth # NoUid
    /\ \/ "uid" \in fields /\ owner = auth
       \/ fields = {} /\ "uid" \in newFields /\ owner = auth

\* a write below rooms/{roomId}/players/{uid}: granted by the rule of the
\* room or by the rule of the participant, or to everyone without rules
StoredPlayer(auth, uid, newData) ==
    IF \/ ~vRules
       \/ RoomWriteAllowed(auth, vRoom, vRoom)
       \/ PlayerWriteAllowed(auth, vPlayers[uid], newData)
    THEN newData ELSE vPlayers[uid]

StoredIndexPlayer(auth, uid, newFields) ==
    IF \/ ~vRules
       \/ RoomWriteAllowed(auth, vIndex, vIndex)
       \/ IndexWriteAllowed(auth, uid, vIndexPlayers[uid], newFields)
    THEN newFields ELSE vIndexPlayers[uid]

\* the fields an update writes below roomsIndex/{roomId}/players/{uid}
IndexFields(uid, writes) ==
    {p[Len(p)] : p \in {q \in DOMAIN writes : /\ Len(q) = Len(IndexPath(uid)) + 1
                                               /\ IsPrefix(IndexPath(uid), q)}}

\* setPlayerOnlineStatus as the store takes its two updates
OnlineMarked(uid, isOnline) ==
    LET writes == setPlayerOnlineStatusWrites(Db, uid, isOnline)
    IN  [players |-> [vPlayers EXCEPT ![uid] =
                         StoredPlayer(uid, uid, PlayerAfter(vPlayers[uid], uid, writes))],
         index   |-> [vIndexPlayers EXCEPT ![uid] =
                         StoredIndexPlayer(uid, uid,
                                           vIndexPlayers[uid] \cup IndexFields(uid, writes))]]

\* joinGameRoom as the store takes its two sets
Joined(uid, initialState) ==
    LET writes == joinGameRoomWrites(Db, uid, initialState)
    IN  [players |-> [vPlayers EXCEPT ![uid] =
                         StoredPlayer(uid, uid, writes[PlayerPath(uid)])],
         index   |-> [vIndexPlayers EXCEPT ![uid] =
                         StoredIndexPlayer(uid, uid, DOMAIN writes[IndexPath(uid)])]]

\* something is stored at or below rooms/{roomId}
RoomHolds ==
    vRoom.exists \/ vOrder # <<>> \/ \E u \in VisitClients : PlayerExists(vPlayers[u])

\* something is stored at or below roomsIndex/{roomId}
IndexHolds ==
    vIndex.exists \/ \E u \in VisitClients : vIndexPlayers[u] # {}

\* snapshot.val() of rooms/{roomId} as a player's listener gets it
SnapshotFor(uid) ==
    IF RoomHolds THEN [kind |-> "room", order |-> vOrder, player |-> vPlayers[uid]]
    ELSE [kind |-> "null", order |-> <<>>, player |-> NoPlayer]

\* createGameRoom has stored the room and its index entry
VisitInit ==
    /\ UnitInit("visit")
    /\ vRules \in BOOLEAN
    /\ vRoom = [exists |-> TRUE, createdByUid |-> Me]
    /\ vIndex = [exists |-> TRUE, createdByUid |-> Me]
    /\ vOrder = <<>>
    /\ \E saved \in SUBSET {Peer} :
         /\ vPlayers = [u \in VisitClients |-> IF u \in saved THEN SavedVisit(u) ELSE NoPlayer]
         /\ vIndexPlayers = [u \in VisitClients |->
                                IF u \in saved THEN {"uid", "isOnline"} ELSE {}]
    /\ vClient = [u \in VisitClients |-> AwayClient]
    /\ vCancelled = FALSE
    /\ vLast = NoVisitWrite

VisitUnchanged ==
    UNCHANGED <<sDb, sResult, hydrateVars, shuffleVars, turnVars, lobbyVars, fetchVars,
                prefetchVars, deckVars, ingestVars, mainVars, diffVars, observerVars>>

\* the init effect up to `await ensureSignedIn()`
VisitMount(c) ==
    /\ ~vClient[c].mounted /\ ~vClient[c].left /\ ~vClient[c].signing
    /\ vClient' = [vClient EXCEPT ![c].mounted = TRUE, ![c].signing = TRUE]
    /\ UNCHANGED <<vRules, vRoom, vOrder, vPlayers, vIndex, vIndexPlayers, vCancelled, vLast>>
    /\ VisitUnchanged

\* the cleanups of the init effect and of the sync effect, on the component
Left(cl) ==
    [cl EXCEPT !.mounted = FALSE, !.left = TRUE, !.listening = FALSE, !.timer = FALSE,
               !.inbox = NoSnapshot]

\* the cleanup's setPlayerOnlineStatus(roomId, currentUidRef.current, false)
LeftMark(c) ==
    IF vClient[c].uidRef THEN OnlineMarked(c, FALSE)
    ELSE [players |-> vPlayers, index |-> vIndexPlayers]

\* ensureSignedIn() resolves: without a user the page goes back to the
\* lobby; with one, currentUidRef.current = user.uid and subscribeToRoom,
\* whether or not the effect has been cleaned up in the meantime
VisitSignedIn(c) ==
    /\ vClient[c].signing
    /\ \E user \in {c, NoUid} :
         vClient' = [vClient EXCEPT ![c] =
                        IF user = NoUid
                        THEN IF @.mounted THEN [Left(@) EXCEPT !.signing = FALSE]
                             ELSE [@ EXCEPT !.signing = FALSE]
                        ELSE [@ EXCEPT !.signing = FALSE, !.uidRef = TRUE,
                                       !.listening = TRUE]]
    /\ UNCHANGED <<vRules, vRoom, vOrder, vPlayers, vIndex, vIndexPlayers, vCancelled, vLast>>
    /\ VisitUnchanged

\* onValue: the store sends the room as it is now to a player's listener
VisitNotify(c) ==
    /\ vClient[c].listening
    /\ SnapshotFor(c) \notin {vClient[c].inbox, vClient[c].seen}
    /\ vClient' = [vClient EXCEPT ![c].inbox = SnapshotFor(c)]
    /\ UNCHANGED <<vRules, vRoom, vOrder, vPlayers, vIndex, vIndexPlayers, vCancelled, vLast>>
    /\ VisitUnchanged

\* the subscribeToRoom callback on a null room: alert, navigate('/lobby'),
\* and with it the cleanups of a page that is still open
VisitRoomGone(c) ==
    /\ vClient[c].listening /\ vClient[c].inbox.kind = "null"
    /\ IF vClient[c].mounted
       THEN /\ vClient' = [vClient EXCEPT ![c] = Left(@)]
            /\ vPlayers' = LeftMark(c).players
            /\ vIndexPlayers' = LeftMark(c).index
            /\ vLast' = [fn |-> "setPlayerOnlineStatus", by |-> c, late |-> FALSE]
       ELSE /\ vClient' = [vClient EXCEPT ![c].seen = vClient[c].inbox, ![c].inbox = NoSnapshot]
            /\ UNCHANGED <<vPlayers, vIndexPlayers, vLast>>
    /\ UNCHANGED <<vRules, vRoom, vOrder, vIndex, vCancelled>>
    /\ VisitUnchanged

\* the subscribeToRoom callback on a room: addPlayerToTurnOrder, then on the
\* first snapshot the restore branch (setPlayerOnlineStatus) or the create
\* branch (joinGameRoom) and setIsReady(true), which starts the sync timer
\* of a component that is still rendered
VisitCallback(c) ==
    /\ vClient[c].listening /\ vClient[c].inbox.kind = "room"
    /\ LET snap      == vClient[c].inbox
           call      == addPlayerToTurnOrderCall(Db, snap.order, c, TRUE)
           restore   == HasSavedGame(snap.player)
           gameCards == createGameCards(0, 1)
           zs        == [z \in Zones |-> hydrateZone(snap.player[z], DeckCardIds)]
           lf        == IF "life" \in DOMAIN snap.player.scalars
                        THEN OrDefault(snap.player.scalars.life, StartingLife)
                        ELSE StartingLife
           stored    == IF vClient[c].init THEN [players |-> vPlayers, index |-> vIndexPlayers]
                        ELSE IF restore THEN OnlineMarked(c, TRUE)
                        ELSE Joined(c, InitialState(gameCards))
       IN  /\ vOrder' = Written(call.writes, <<"rooms", RoomId, "turnOrder">>, vOrder)
           /\ vPlayers' = stored.players
           /\ vIndexPlayers' = stored.index
           /\ vClient' = [vClient EXCEPT
                  ![c].seen = snap, ![c].inbox = NoSnapshot, ![c].init = TRUE,
                  ![c].timer = @ \/ (vClient[c].mounted /\ ~vClient[c].init),
                  ![c].local = IF vClient[c].init \/ ~vClient[c].mounted THEN @
                               ELSE IF restore THEN WireState(zs, lf)
                               ELSE WireState([NoZones EXCEPT !.library = gameCards],
                                              StartingLife)]
           /\ vLast' = IF ~vClient[c].init
                       THEN [fn |-> IF restore THEN "setPlayerOnlineStatus" ELSE "joinGameRoom",
                             by |-> c, late |-> vClient[c].left]
                       ELSE IF call.writes # EmptyFn
                       THEN [fn |-> "addPlayerToTurnOrder", by |-> c, late |-> vClient[c].left]
                       ELSE vLast
    /\ UNCHANGED <<vRules, vRoom, vIndex, vCancelled>>
    /\ VisitUnchanged

\* the debounce timer's callback, first run: updatePlayerState with the full state
VisitSyncTick(c) ==
    /\ vClient[c].timer
    /\ LET writes == updatePlayerStateWrites(Db, c, vClient[c].local @@ [isOnline |-> TRUE])
       IN  vPlayers' = [vPlayers EXCEPT ![c] =
                           StoredPlayer(c, c, PlayerAfter(vPlayers[c], c, writes))]
    /\ vClient' = [vClient EXCEPT ![c].timer = FALSE]
    /\ vLast' = [fn |-> "updatePlayerState", by |-> c, late |-> vClient[c].left]
    /\ UNCHANGED <<vRules, vRoom, vOrder, vIndex, vIndexPlayers, vCancelled>>
    /\ VisitUnchanged

\* the player leaves the page: the cleanups run
VisitLeave(c) ==
    /\ vClient[c].mounted
    /\ vClient' = [vClient EXCEPT ![c] = Left(@)]
    /\ vPlayers' = LeftMark(c).players
    /\ vIndexPlayers' = LeftMark(c).index
    /\ vLast' = IF vClient[c].uidRef
                THEN [fn |-> "setPlayerOnlineStatus", by |-> c, late |-> FALSE]
                ELSE vLast
    /\ UNCHANGED <<vRules, vRoom, vOrder, vIndex, vCancelled>>
    /\ VisitUnchanged

\* the creator cancels the room: deleteGameRoom removes rooms/{roomId} and
\* roomsIndex/{roomId}
VisitCancel ==
    /\ vRoom.exists /\ vRoom.createdByUid = Me
    /\ vRoom' = AfterRemove(Me, vRoom)
    /\ vIndex' = AfterRemove(Me, vIndex)
    /\ vOrder' = <<>>
    /\ vPlayers' = [u \in VisitClients |-> NoPlayer]
    /\ vIndexPlayers' = [u \in VisitClients |-> {}]
    /\ vCancelled' = TRUE
    /\ UNCHANGED <<vRules, vClient, vLast>>
    /\ VisitUnchanged

VisitNext ==
    \/ VisitCancel
    \/ \E c \in VisitClients :
         \/ VisitMount(c) \/ VisitSignedIn(c) \/ VisitNotify(c) \/ VisitRoomGone(c)
         \/ VisitCallback(c) \/ VisitSyncTick(c) \/ VisitLeave(c)

VisitSpec == VisitInit /\ [][VisitNext]_vars

(***************************************************************************)
(* Remote peer ingestion: every room snapshot starts an asynchronous       *)
(* prefetchCardsById of the peers' cards that the local deck does not      *)
(* have, followed by hydrateZone and setOtherPlayers.                      *)
(***************************************************************************)
\* full-state syncs of the peer
MaxPeerSyncs == 3

\* a card of the peer's deck that the local deck does not have
ForeignCard(instanceId, cardId) ==
    [GameCard(instanceId, FALSE, FALSE) EXCEPT !.card = KnownCard(cardId)]

\* what the peer may have on its battlefield
IngestBattlefields ==
    {<<>>, <<ForeignCard(901, PeerCardId)>>, <<ForeignCard(902, PeerCardId - 1)>>,
     <<ForeignCard(901, PeerCardId), ForeignCard(902, PeerCardId - 1)>>}

\* Object.values(zone.cardsById || {}).map((c) => c.cardId): by ascending key
collectZoneCardIds(zone) ==
    LET keys   == DOMAIN zone.cardsById
        sorted == CHOOSE s \in [1..Cardinality(keys) -> keys] :
                      \A i, j \in 1..Cardinality(keys) : i < j => s[i] < s[j]
    IN  [i \in 1..Cardinality(keys) |-> zone.cardsById[sorted[i]].cardId]

\* othersWire.flatMap(battlefield, graveyard, exile).filter((id) => !localCards.has(id))
IdsToPrefetch(roomPlayers, uid, localCards) ==
    LET p == roomPlayers[Peer]
    IN  SelectSeq(collectZoneCardIds(p.battlefield) \o collectZoneCardIds(p.graveyard)
                      \o collectZoneCardIds(p.exile),
                  LAMBDA id : id \notin localCards)

NoView == [seq |-> 0, players |-> EmptyFn]

IngestInit ==
    /\ UnitInit("ingest")
    /\ gPlayers = (Peer :> PeerState)
    /\ gSyncsLeft = MaxPeerSyncs
    /\ gSeq = 0 /\ gSeen = Null
    /\ gCache = EmptyFn /\ gTasks = {} /\ gView = NoView

IngestUnchanged ==
    UNCHANGED <<sDb, sResult, hydrateVars, shuffleVars, turnVars, lobbyVars, fetchVars,
                prefetchVars, deckVars, visitVars, mainVars, diffVars, observerVars>>

\* the peer's client writes its full state (its own sync loop)
IngestPeerSync ==
    /\ gSyncsLeft > 0
    /\ \E battlefield \in IngestBattlefields :
         /\ gPlayers' = ApplyUpdate(gPlayers,
                            updatePlayerState(Peer,
                                WireState([NoZones EXCEPT !.battlefield = battlefield],
                                          StartingLife) @@ [isOnline |-> TRUE]))
         /\ gPlayers' # gPlayers
    /\ gSyncsLeft' = gSyncsLeft - 1
    /\ UNCHANGED <<gSeq, gSeen, gCache, gTasks, gView>>
    /\ IngestUnchanged

\* setOtherPlayers(hydrated) of the snapshot an ingestion was started for
Hydrated(seq, roomPlayers, cache) ==
    [seq |-> seq, players |-> HydratePeers(roomPlayers, Me, DeckCardIds \cup DOMAIN cache)]

\* the room callback: the ingestion of a snapshot starts.  With nothing to
\* fetch prefetchCardsById resolves at once and setOtherPlayers follows
\* before any other event; otherwise the first getCardById is under way
IngestSnapshot ==
    /\ gSeen # gPlayers
    /\ LET missing == Missing(IdsToPrefetch(gPlayers, Me, DeckCardIds), gCache)
       IN  IF missing = <<>>
           THEN /\ gView' = Hydrated(gSeq + 1, gPlayers, gCache)
                /\ UNCHANGED gTasks
           ELSE /\ gTasks' = gTasks \cup {[seq |-> gSeq + 1, players |-> gPlayers,
                                           missing |-> missing]}
                /\ UNCHANGED gView
    /\ gSeq' = gSeq + 1
    /\ gSeen' = gPlayers
    /\ UNCHANGED <<gPlayers, gSyncsLeft, gCache>>
    /\ IngestUnchanged

\* the getCardById an ingestion awaits settles; the loop goes on to the next
\* id that is not cached, and after the last one hydrates and calls
\* setOtherPlayers
IngestFetched ==
    \E task \in gTasks, outcome \in FetchOutcomes :
        LET got  == Caught(getCardById(gCache, Head(task.missing), outcome))
            rest == SelectSeq(Tail(task.missing), LAMBDA id : id \notin DOMAIN got.cache)
        IN  /\ gCache' = got.cache
            /\ IF rest = <<>>
               THEN /\ gTasks' = gTasks \ {task}
                    /\ gView' = Hydrated(task.seq, task.players, got.cache)
               ELSE /\ gTasks' = (gTasks \ {task}) \cup {[task EXCEPT !.missing = rest]}
                    /\ UNCHANGED gView
            /\ UNCHANGED <<gPlayers, gSyncsLeft, gSeq, gSeen>>
            /\ IngestUnchanged

IngestNext == IngestPeerSync \/ IngestSnapshot \/ IngestFetched

IngestSpec == IngestInit /\ [][IngestNext]_vars

(***************************************************************************)
(* Properties.                                                             *)
(***************************************************************************)
PrevWire == toWireZone(dA)

CurWire == toWireZone(dB)

DiffOrNone ==
    IF dDiff # Null THEN dDiff
    ELSE [addedCards |-> EmptyFn, removedCardIds |-> {}, updatedCards |-> EmptyFn,
          newOrder |-> Null]

\* C1: applying to a store that holds zone A the point writes generated for
\* computeZoneDiff(A, B) leaves a zone with the cardsById entries and the
\* order of B
C1_RoundTrip == dDone => dStore[DiffUid].battlefield = CurWire

\* a diff with an added, a removed and an updated card and a new order
C1_Witness ==
    /\ dDone /\ dDiff # Null
    /\ DOMAIN DiffOrNone.addedCards # {}
    /\ DiffOrNone.removedCardIds # {}
    /\ DOMAIN DiffOrNone.updatedCards # {}
    /\ DiffOrNone.newOrder # Null

ChangedFields(id) ==
    {f \in {"tapped", "faceDown"} : PrevWire.cardsById[id][f] # CurWire.cardsById[id][f]}

\* B is A with tapped flipped on the one instance id
TappedToggled(id) ==
    /\ id \in DOMAIN PrevWire.cardsById
    /\ CurWire.order = PrevWire.order
    /\ CurWire.cardsById =
         [PrevWire.cardsById EXCEPT ![id].tapped = ~PrevWire.cardsById[id].tapped]

\* C9: updatedCards has an entry exactly for the instances of both snapshots
\* whose tapped or faceDown changed, each entry holds exactly the changed
\* fields, and a toggle of tapped on one instance gives one entry with the
\* one field, nothing added or removed and no new order
C9_UpdatedCards ==
    dDone =>
        /\ DOMAIN DiffOrNone.updatedCards =
             {id \in DOMAIN PrevWire.cardsById \cap DOMAIN CurWire.cardsById :
                ChangedFields(id) # {}}
        /\ \A id \in DOMAIN DiffOrNone.updatedCards :
             /\ DOMAIN DiffOrNone.updatedCards[id] = ChangedFields(id)
             /\ \A f \in ChangedFields(id) :
                  DiffOrNone.updatedCards[id][f] = CurWire.cardsById[id][f]
        /\ \A id \in DiffIds :
             TappedToggled(id) =>
                /\ dDiff # Null
                /\ DOMAIN DiffOrNone.updatedCards = {id}
                /\ DOMAIN DiffOrNone.updatedCards[id] = {"tapped"}
                /\ DOMAIN DiffOrNone.addedCards = {}
                /\ DiffOrNone.removedCardIds = {}
                /\ DiffOrNone.newOrder = Null

\* tapped toggled on one of two cards
C9_Witness ==
    /\ dDone /\ Len(dA) = 2 /\ dA[1].instanceId # dA[2].instanceId
    /\ \E id \in DiffIds : TappedToggled(id)

\* B holds the cards of A with two different instances in exchanged positions
PositionsSwapped ==
    /\ CurWire.cardsById = PrevWire.cardsById
    /\ Len(CurWire.order) = Len(PrevWire.order)
    /\ \E i, j \in DOMAIN PrevWire.order :
         /\ PrevWire.order[i] # PrevWire.order[j]
         /\ CurWire.order = [PrevWire.order EXCEPT ![i] = PrevWire.order[j],
                                                   ![j] = PrevWire.order[i]]

\* C10: newOrder is the complete current order exactly when the two orders
\* differ and null otherwise, and exchanging two instances gives that
\* newOrder with nothing added, removed or updated
C10_NewOrder ==
    dDone =>
        /\ (CurWire.order # PrevWire.order) <=>
             (dDiff # Null /\ DiffOrNone.newOrder # Null)
        /\ DiffOrNone.newOrder # Null => DiffOrNone.newOrder.order = CurWire.order
        /\ PositionsSwapped =>
             /\ dDiff # Null
             /\ DiffOrNone.newOrder # Null
             /\ DOMAIN DiffOrNone.addedCards = {}
             /\ DiffOrNone.removedCardIds = {}
             /\ DOMAIN DiffOrNone.updatedCards = {}

C10_Witness == dDone /\ PositionsSwapped

IsDuplicateFree(seq) == \A i, j \in DOMAIN seq : seq[i] = seq[j] => i = j

\* C2: every zone of every player in the store has an order without
\* duplicates that holds exactly the keys of its cardsById
C2_StoreZonesWellFormed ==
    \A uid \in DOMAIN players : \A z \in Zones :
        /\ IsDuplicateFree(players[uid][z].order)
        /\ Range(players[uid][z].order) = DOMAIN players[uid][z].cardsById

ZoneMovingOps ==
    {"drawCard", "drawOpeningHand", "playCard", "returnToHand", "sendToGraveyard",
     "returnFromGraveyard", "exileCard", "returnFromExile", "moveFromLibrary",
     "putOnTopOfLibrary", "putOnBottomOfLibrary", "handleDrop"}

\* how many cards of the five local zones carry the instance id
Occurrences(id) ==
    Cardinality({<<z, i>> \in Zones \X (1..DeckSize + MaxOps) :
                    i \in DOMAIN zones[z] /\ zones[z][i].instanceId = id})

\* C3: after a zone-moving operation the moved card's instanceId is in
\* exactly one place of the five local zones
C3_MovedCardInOneZone ==
    lastOp.name \in ZoneMovingOps => \A id \in lastOp.moved : Occurrences(id) = 1

\* the zones and scalars the store holds for a player
StoreState(player) ==
    [z \in Zones |-> player[z]]
    @@ [k \in ScalarKeys \cap DOMAIN player.scalars |-> player.scalars[k]]

\* C4: a non-null last-synced snapshot equals the zones, handCount,
\* libraryCount and life this client last wrote successfully, which are the
\* ones the store holds for it
C4_SnapshotIsWritten ==
    lastSyncedStateRef # Null => lastSyncedStateRef = StoreState(players[Me])

\* C5 as stated: a burst of mutations between two timer fires results in
\* exactly one store write
C5_BurstExactlyOneWrite ==
    (lastTick.fired /\ lastTick.ops # <<>>) => lastTick.writes = 1

\* C5: at most one debounced sync is pending, it is the one the last mutation
\* started and it holds the state after that mutation; the fire that ends a
\* burst of mutations issues at most one write, and it issues one exactly when
\* there is no snapshot yet or the state differs from the snapshot
C5_OnePendingSync ==
    /\ Cardinality(timers) <= 1
    /\ \A t \in timers : t.id = syncTimeoutRef /\ t.zones = zones /\ t.life = life
    /\ (isReady /\ pendingOps # <<>>) => Cardinality(timers) = 1
    /\ (lastTick.fired /\ lastTick.ops # <<>>) =>
          /\ lastTick.writes <= 1
          /\ lastTick.writes = 1 <=> (lastTick.prevNull \/ lastTick.changed # {})

\* a burst of two or more mutations ended in one incremental write
C5_Witness ==
    /\ lastTick.fired /\ Len(lastTick.ops) >= 2
    /\ ~lastTick.prevNull /\ lastTick.writes = 1

\* C6: a timer fire at which the five wire zones, handCount, libraryCount
\* and life equal the last-synced snapshot issues no store write
C6_NoOpTick ==
    (lastTick.fired /\ ~lastTick.prevNull /\ lastTick.changed = {}) =>
        lastTick.writes = 0 /\ lastTick.paths = {}

\* a fire after mutations that left the state as it was synced
C6_Witness ==
    /\ lastTick.fired /\ ~lastTick.prevNull /\ lastTick.changed = {}
    /\ lastTick.ops # <<>>

FullStatePaths ==
    {PlayerPath(Me) \o <<k>> : k \in Zones \cup ScalarKeys \cup {"isOnline", "lastUpdate"}}

\* the player-state keys an update writes at or below
WrittenKeys(paths) == {p[Len(PlayerPath(Me)) + 1] : p \in paths} \ {"isOnline", "lastUpdate"}

\* C7: a timer fire issues at most one write; it is the write of the complete
\* player state exactly when there is no last-synced snapshot, and otherwise
\* one update that covers exactly the changed zones and scalars
C7_OneWritePerFire ==
    lastTick.fired =>
        /\ lastTick.writes <= 1
        /\ lastTick.prevNull <=> lastTick.paths = FullStatePaths
        /\ lastTick.prevNull => lastTick.writes = 1
        /\ ~lastTick.prevNull =>
             /\ WrittenKeys(lastTick.paths) = lastTick.changed
             /\ lastTick.writes = 1 <=> lastTick.changed # {}
             /\ \A p \in lastTick.paths : Len(p) > Len(PlayerPath(Me))

\* an incremental update that covers two zones and a scalar
C7_Witness ==
    /\ lastTick.fired /\ ~lastTick.prevNull /\ lastTick.writes = 1
    /\ Cardinality(lastTick.changed \cap Zones) >= 2
    /\ lastTick.changed \cap ScalarKeys # {}

\* the fire that follows a single toggleTapped made after the initial sync
TapToggleSynced ==
    lastTick.fired /\ ~lastTick.prevNull /\ lastTick.ops = <<"toggleTapped">>

IsTappedPath(p) ==
    /\ Len(p) = Len(PlayerPath(Me)) + 4
    /\ IsPrefix(PlayerPath(Me) \o <<"battlefield", "cardsById">>, p)
    /\ p[Len(p)] = "tapped"

C11_NullPrevGivesNull == dFirst.done => dFirst.diff = Null

\* what the code returns for an absent previous zone: null only for an empty
\* current zone, and otherwise a diff that adds every card and sets the order
C11_NullPrevAddsAll ==
    dFirst.done =>
        IF CurWire = emptyZone THEN dFirst.diff = Null
        ELSE /\ dFirst.diff # Null
             /\ dFirst.diff.addedCards = CurWire.cardsById
             /\ dFirst.diff.removedCardIds = {}
             /\ dFirst.diff.updatedCards = EmptyFn
             /\ dFirst.diff.newOrder = [order |-> CurWire.order]

\* the cards of a local zone as the store would hold them
SameAsStored(zone, stored) == toWireZone(zone) = stored

\* C12 as stated: the first room snapshot restores the five zones and life from
\* a stored Player State with non-empty hand and library without calling
\* joinGameRoom, and otherwise puts a freshly shuffled deck in the library
\* and writes a new Player State with joinGameRoom
C12_RestoreOrCreate ==
    lastInit.branch # "none" =>
        IF HasSavedGame(lastInit.before)
        THEN /\ lastInit.branch = "restore"
             /\ lastInit.joins = 0
             /\ \A z \in Zones : SameAsStored(lastInit.zones[z], lastInit.before[z])
             /\ lastInit.life = lastInit.before.scalars.life
        ELSE /\ lastInit.branch = "create"
             /\ lastInit.joins = 1
             /\ Len(lastInit.zones.library) = DeckSize
             /\ Cardinality(Ids(lastInit.zones.library)) = DeckSize
             /\ \A z \in Zones \ {"library"} : lastInit.zones[z] = <<>>

\* the branch taken by the first room snapshot, without the restored life
C12_BranchTaken ==
    lastInit.branch # "none" =>
        IF HasSavedGame(lastInit.before)
        THEN /\ lastInit.branch = "restore"
             /\ lastInit.joins = 0
             /\ \A z \in Zones : SameAsStored(lastInit.zones[z], lastInit.before[z])
        ELSE /\ lastInit.branch = "create"
             /\ lastInit.joins = 1
             /\ Len(lastInit.zones.library) = DeckSize
             /\ Cardinality(Ids(lastInit.zones.library)) = DeckSize
             /\ \A z \in Zones \ {"library"} : lastInit.zones[z] = <<>>

\* a zone as a set of cards: instanceId with its tapped and faceDown
CardSet(zone) ==
    {[instanceId |-> zone[i].instanceId, tapped |-> zone[i].tapped,
      faceDown |-> zone[i].faceDown] : i \in DOMAIN zone}

\* the client came back after leaving a game with cards in hand and library
Rejoined ==
    /\ lastInit.branch # "none" /\ leftWith # Null
    /\ leftWith.zones.hand # <<>> /\ leftWith.zones.library # <<>>

\* C13 as stated: the local zones after the reconnect are set-equal, by
\* instanceId and per-card tapped / faceDown, to the local zones right before
\* the disconnect
C13_RejoinRestoresZones ==
    Rejoined => \A z \in Zones : CardSet(lastInit.zones[z]) = CardSet(leftWith.zones[z])

\* what the code restores: the zones the store held, which are the local
\* zones of the last sync tick that ran before the page was left
C13_RejoinRestoresStored ==
    (Rejoined /\ lastInit.branch = "restore") =>
        \A z \in Zones : SameAsStored(lastInit.zones[z], lastInit.before[z])

\* a fresh player has joined, made no move, and the debounce timer has fired
InitialSyncDone ==
    /\ lastInit.branch = "create" /\ ~HasSavedGame(lastInit.before)
    /\ \A z \in Zones \ {"library"} : lastInit.zones[z] = <<>>
    /\ lastInit.life = StartingLife
    /\ lastOp = NoOp /\ pendingOps = <<>>
    /\ lastTick.fired /\ lastTick.ops = <<>>

HidesHiddenZones(view, record) ==
    /\ view.hand = <<>> /\ view.library = <<>>
    /\ \A z \in {"battlefield", "graveyard", "exile"} : SameAsStored(view[z], record[z])
    /\ view.scalars = record.scalars

\* C15: for every room snapshot a client has received and every other
\* participant in it, the hydrated view has an empty hand and library
\* whatever the snapshot held in those zones; battlefield, graveyard and
\* exile are hydrated from the snapshot and the scalars (handCount and
\* libraryCount among them) are carried over; the same for the observer page.
\* (A record of the client's own path that carries no uid, as left by a
\* setPlayerOnlineStatus before the first join, passes the filter
\* p.uid !== user.uid and is viewed the same way.)
C15_PeerViewHidesHand ==
    /\ room # Null =>
          /\ {u \in DOMAIN room \ {Me} : PlayerExists(room[u])} \subseteq DOMAIN otherPlayers
          /\ \A u \in DOMAIN otherPlayers : HidesHiddenZones(otherPlayers[u], room[u])
    /\ observerRoom # Null =>
          /\ DOMAIN observerPlayers = {u \in DOMAIN observerRoom : PlayerExists(observerRoom[u])}
          /\ \A u \in DOMAIN observerPlayers :
                HidesHiddenZones(observerPlayers[u], observerRoom[u])

\* a snapshot in which the peer holds a card in hand and one on the
\* battlefield has been ingested by the client and by the observer
C15_Witness ==
    /\ room # Null /\ Peer \in DOMAIN otherPlayers
    /\ room[Peer].hand # emptyZone /\ room[Peer].battlefield # emptyZone
    /\ otherPlayers[Peer].battlefield # <<>>
    /\ otherPlayers[Peer].scalars.handCount = 1
    /\ observerRoom # Null /\ Me \in DOMAIN observerPlayers
    /\ observerRoom[Me].hand # emptyZone

PlayerStateWriters ==
    {"joinGameRoom", "updatePlayerState", "updatePlayerStateDiff", "setPlayerOnlineStatus"}

\* C16: every path written by joinGameRoom, updatePlayerState,
\* updatePlayerStateDiff and setPlayerOnlineStatus lies at or under
\* rooms/{roomId}/players/{own uid} or roomsIndex/{roomId}/players/{own uid},
\* and the other participant's Player State is never changed by this client
C16_OwnSubtreeOnly ==
    /\ written.fn \in PlayerStateWriters =>
          \A p \in DOMAIN written.updates :
              IsPrefix(PlayerPath(Me), p) \/ IsPrefix(IndexPath(Me), p)
    /\ players[Peer] = PeerState

\* each of the four functions has written
C16_Witness ==
    /\ written.fn = "updatePlayerStateDiff"
    /\ \E p \in DOMAIN written.updates : Len(p) > Len(PlayerPath(Me)) + 1
    /\ lastInit.branch = "restore"

\* C17: whenever the store holds counts for this participant, handCount is
\* the length of the stored hand.order and libraryCount the length of the
\* stored library.order
C17_CountsMatchZones ==
    \A u \in {Me} :
        {"handCount", "libraryCount"} \subseteq DOMAIN players[u].scalars =>
            /\ players[u].scalars.handCount = Len(players[u].hand.order)
            /\ players[u].scalars.libraryCount = Len(players[u].library.order)

\* the scalars of a Player State other than the online mark and its stamp
KeptScalars(player) ==
    [k \in DOMAIN player.scalars \ {"isOnline", "lastUpdate"} |-> player.scalars[k]]

WritingServices ==
    {"joinGameRoom", "updatePlayerState", "updatePlayerStateDiff",
     "setPlayerOnlineStatus", "addPlayerToTurnOrder", "advanceTurn"}

\* C19: with getDb() returning null no service function writes or throws;
\* subscribeToRoom delivers null once and returns a no-op unsubscribe,
\* subscribeToRoomList delivers an empty list, createGameRoom returns null
C19_FailsClosed ==
    (sDb = NoDb /\ sResult.fn # "none") =>
        /\ sResult.writes = EmptyFn
        /\ ~sResult.threw
        /\ sResult.fn = "subscribeToRoom" =>
              sResult.delivered = <<[arg |-> Null]>> /\ sResult.returned = "noop unsubscribe"
        /\ sResult.fn = "subscribeToRoomList" =>
              sResult.delivered = <<[arg |-> <<>>]>> /\ sResult.returned = "noop unsubscribe"
        /\ sResult.fn = "createGameRoom" => sResult.returned = "null"
        /\ sResult.fn \in WritingServices =>
              sResult.delivered = <<>> /\ sResult.returned = "undefined"

\* updatePlayerStateDiff was called without a database
C19_Witness == sDb = NoDb /\ sResult.fn = "updatePlayerStateDiff"

\* the compact card hydrateZone read for the i-th card it returned
HydratedFrom(i) ==
    IF hZone.form = "array" THEN hZone.array[i]
    ELSE hZone.cardsById[hResult.cards[i].instanceId]

\* C20: hydrateZone never throws and returns a sequence: empty for an absent
\* or empty zone, one card per element of a legacy array, one card per id of
\* order that has a card for a {cardsById, order} zone, and for a cardId
\* that resolves nowhere the placeholder named 'Unknown Card' with that id
C20_HydrateTotal ==
    hResult.done =>
        /\ ~hResult.threw
        /\ DOMAIN hResult.cards = 1..Len(hResult.cards)
        /\ hZone.form = "absent" => hResult.cards = <<>>
        /\ (hZone.form = "wire" /\ hZone.order = <<>>) => hResult.cards = <<>>
        /\ hZone.form = "array" =>
               /\ Len(hResult.cards) = Len(hZone.array)
               /\ \A i \in DOMAIN hZone.array :
                      hResult.cards[i].instanceId = hZone.array[i].instanceId
        /\ hZone.form = "wire" =>
               /\ hResult.cards =
                      hydrateZone([cardsById |-> hZone.cardsById, order |-> hZone.order],
                                  hResult.resolvable)
               /\ [i \in DOMAIN hResult.cards |-> hResult.cards[i].instanceId] =
                      SelectSeq(hZone.order, LAMBDA id : id \in DOMAIN hZone.cardsById)
        /\ \A i \in DOMAIN hResult.cards :
               /\ hResult.cards[i].tapped = HydratedFrom(i).tapped
               /\ hResult.cards[i].faceDown = HydratedFrom(i).faceDown
               /\ hResult.cards[i].card.id = HydratedFrom(i).cardId
               /\ HydratedFrom(i).cardId \notin hResult.resolvable =>
                      hResult.cards[i].card =
                          [id |-> HydratedFrom(i).cardId, name |-> "Unknown Card"]

\* a {cardsById, order} zone whose order names an id without a card and whose
\* card resolves nowhere has been hydrated into a placeholder
C20_Witness ==
    /\ hResult.done /\ ~hResult.threw
    /\ hZone.form = "wire"
    /\ \E i \in DOMAIN hZone.order : hZone.order[i] \notin DOMAIN hZone.cardsById
    /\ \E i \in DOMAIN hResult.cards : hResult.cards[i].card.name = "Unknown Card"

\* order is a permutation of the keys of cardsById and every entry's
\* instanceId is its key
WellFormedWire(zone) ==
    /\ Range(zone.order) = DOMAIN zone.cardsById
    /\ Len(zone.order) = Cardinality(DOMAIN zone.cardsById)
    /\ \A id \in DOMAIN zone.cardsById : zone.cardsById[id].instanceId = id

HydratedWire == [cardsById |-> hZone.cardsById, order |-> hZone.order]

Copies(cards, id) == Cardinality({i \in DOMAIN cards : cards[i].instanceId = id})

IsPermutation(a, b) ==
    /\ Len(a) = Len(b)
    /\ \A id \in Ids(a) \cup Ids(b) : Copies(a, id) = Copies(b, id)
    /\ Range(a) = Range(b)

\* C22: shuffleArray returns a sequence of the length of its argument that
\* holds every instanceId as many times as the argument does, and leaves the
\* argument as it was; after shuffleLibrary the library is such a permutation
\* of the library before and every other zone is as before
C22_ShuffleIsPermutation ==
    /\ shPhase = "set" =>
          /\ IsPermutation(shShuffled, shArray)
          /\ shArray = shBefore.library
          /\ shZones.library = shShuffled
          /\ \A z \in Zones \ {"library"} : shZones[z] = shBefore[z]
    /\ shPhase \in {"loop", "set"} =>
          \A half \in RandomHalves : IsPermutation(shuffleArray(shArray, half), shArray)

\* a library of three distinct cards has been shuffled into another order
C22_Witness ==
    /\ shPhase = "set"
    /\ Cardinality(Ids(shBefore.library)) = MaxShuffleLen
    /\ shZones.library # shBefore.library

\* C23: advanceTurn writes the index after the current one, and 0 after the
\* last one: with three participants index 2 advances to 0; with an empty
\* turn order it writes nothing
C23_AdvanceTurnWraps ==
    /\ tLast.fn = "advanceTurn" =>
          /\ tLast.wrote
          /\ tLast.wroteIndex = IF tLast.index + 1 < Len(tLast.order)
                                THEN tLast.index + 1 ELSE 0
          /\ tLast.wroteIndex \in 0..(Len(tLast.order) - 1)
          /\ (Len(tLast.order) = 3 /\ tLast.index = 2) => tLast.wroteIndex = 0
          /\ tIndex = tLast.wroteIndex
    /\ \A index \in 0..2 : advanceTurnCall(Db, 0, index).writes = EmptyFn

\* the third of three participants has ended its turn and the stored index
\* is back at 0
C23_Witness ==
    /\ tLast.fn = "advanceTurn"
    /\ Len(tLast.order) = 3 /\ tLast.index = 2
    /\ tIndex = 0

\* C24: addPlayerToTurnOrder writes the turn order it was given with the
\* participant appended exactly when the participant is not in it and the
\* room exists, and writes nothing otherwise; no participant is twice in the
\* turnOrder stored for the room
C24_TurnOrderHasNoDuplicate ==
    /\ Cardinality(Range(tOrder)) = Len(tOrder)
    /\ tLast.fn = "addPlayerToTurnOrder" =>
          /\ tLast.wrote <=> tLast.uid \notin Range(tLast.order)
          /\ tLast.wrote =>
                /\ tLast.wroteOrder = Append(tLast.order, tLast.uid)
                /\ tOrder = tLast.wroteOrder
    /\ \A o \in TurnOrders, u \in Uids :
          addPlayerToTurnOrderCall(Db, o, u, FALSE).writes = EmptyFn

\* the third participant has been appended, and a client that is in the
\* turn order of its snapshot has handled a snapshot without writing
C24_Witness ==
    /\ Len(tOrder) = 3
    /\ tLast.fn = "addPlayerToTurnOrder" /\ ~tLast.wrote
    /\ tLast.uid \in Range(tLast.order)

\* C25 as stated: a participant contained in the stored turnOrder is
\* contained in every later stored turnOrder
C25_MembershipAppendOnly ==
    [][\A u \in Range(tOrder) : u \in Range(tOrder')]_vars

\* C25: what holds of a join is that the writer is in the turnOrder it wrote
C25_WriterIsMember ==
    (tLast.fn = "addPlayerToTurnOrder" /\ tLast.wrote) => tLast.uid \in Range(tOrder)

\* C26: a step removes rooms/{roomId} or roomsIndex/{roomId} only when it is
\* a cancel by the identity stored as the room's createdByUid; a cancel by
\* any other identity leaves both as they were
C26_OnlyCreatorCancels ==
    [][\A r \in LobbyRooms :
          /\ (cRooms[r].exists /\ ~cRooms'[r].exists) =>
                (cLast'.fn = "cancel" /\ cLast'.room = r /\ cLast'.by = cRooms[r].createdByUid)
          /\ (cIndex[r].exists /\ ~cIndex'[r].exists) =>
                (cLast'.fn = "cancel" /\ cLast'.room = r /\ cLast'.by = cIndex[r].createdByUid)
          /\ (cLast' # cLast /\ cLast'.room = r /\ cLast'.by # cRooms[r].createdByUid) =>
                (cRooms' = cRooms /\ cIndex' = cIndex)]_vars

\* a user who did not create the room has confirmed the cancel on the page
\* that does not test createdByUid, deleteGameRoom was called, and the room
\* and its index entry are still stored
C26_Witness ==
    /\ cLast.fn = "cancel" /\ cLast.page = "unchecked" /\ cLast.issued
    /\ cLast.by # NoUid /\ cLast.by # cLast.creator
    /\ cRooms[cLast.room].exists /\ cIndex[cLast.room].exists

\* C27 as stated: any two calls of fetch are started at least
\* MIN_REQUEST_INTERVAL_MS apart
C27_FetchesApart ==
    \A i, j \in DOMAIN fStarts :
        i < j => fStarts[j] - fStarts[i] >= MIN_REQUEST_INTERVAL_MS

\* C28: prefetchCardsById never rejects; when it resolves it has gone through
\* every distinct non-empty id that was not cached; the cache keeps every
\* entry it had, unaltered, and gains entries only for ids whose fetch
\* succeeded: a fetch that fails adds no entry
C28_PrefetchNeverRejects ==
    /\ pPhase # "rejected"
    /\ pPhase \in {"loop", "resolved"} =>
          /\ \A id \in DOMAIN pBefore : id \in DOMAIN cardCache /\ cardCache[id] = pBefore[id]
          /\ \A id \in DOMAIN cardCache \ DOMAIN pBefore :
                /\ id \in DOMAIN pFetched /\ pFetched[id] = "ok"
                /\ cardCache[id].id = id
          /\ \A id \in DOMAIN pFetched : pFetched[id] # "ok" => id \notin DOMAIN cardCache
    /\ pPhase = "resolved" =>
          \A id \in Range(pIds) \ {EmptyId} :
              id \in DOMAIN pBefore \/ id \in DOMAIN pFetched \/ id \in DOMAIN cardCache

\* a call with two uncached ids has resolved after one fetch failed with an
\* error and the other succeeded
C28_Witness ==
    /\ pPhase = "resolved"
    /\ \E id \in DOMAIN pFetched : pFetched[id] \in {"apiError", "networkError"}
    /\ \E id \in DOMAIN pFetched : pFetched[id] = "ok" /\ id \notin DOMAIN pBefore
    /\ Len(pIds) = MaxPrefetchLen

\* C29 as stated: whatever saveCloudDeck and deleteCloudDeck calls were made,
\* overlapping ones included, the user holds at most MAX_CLOUD_DECKS decks
C29_AtMostMaxCloudDecks == Cardinality(DOMAIN userDecks) <= MAX_CLOUD_DECKS

\* C29: a save decides on the decks it loaded: with MAX_CLOUD_DECKS of them
\* loaded, a deck that is not among them is refused and a deck that is among
\* them is accepted
C29_SaveDecidesOnLoaded ==
    \A c \in DeckCalls :
        (kCalls[c].fn = "saved"
            /\ Cardinality(DOMAIN kCalls[c].existing) >= MAX_CLOUD_DECKS) =>
        (kCalls[c].success <=> kCalls[c].deck \in Range(kCalls[c].existing))

\* the store holds for this client the wire encoding of its local state
Converged == StoreState(players[Me]) = WireState(zones, life)

\* C30: when the client is Ready, its debounce timer has fired and no local
\* mutation has come since (no sync is pending), the five zones, handCount,
\* libraryCount and life the store holds for it are the wire encoding of
\* its local state; this lasts until the next local mutation
C30_Convergence ==
    (mounted /\ isReady /\ timers = {} /\ lastTick.fired) => Converged

\* after play that moved cards and a timer fire that wrote, nothing is pending
C30_Witness ==
    /\ mounted /\ isReady /\ timers = {} /\ lastTick.fired
    /\ lastTick.writes = 1 /\ ~lastTick.prevNull
    /\ zones.battlefield # <<>> /\ zones.hand # <<>>
    /\ Converged

\* C38: whenever the stored turnOrder is non-empty, the stored
\* currentTurnIndex is an index of it: 0 <= currentTurnIndex < length(turnOrder)
C38_TurnIndexInRange ==
    tOrder # <<>> => tIndex \in 0..(Len(tOrder) - 1)

\* C38: with writes that only ever lengthen the stored turnOrder the index
\* advanceTurn wrote stays in range: it is below the length the writer saw
C38_WrittenIndexBelowSeenLength ==
    (tLast.fn = "advanceTurn" /\ tLast.wrote) => tLast.wroteIndex \in 0..(Len(tLast.order) - 1)

\* C39: with snapshots delivered and handled, the stored turnOrder
\* eventually contains every connected participant, and keeps them
C39_EveryoneJoins ==
    <>[](TurnClients \subseteq Range(tOrder))

\* C39: a join has just overwritten the stored turnOrder: a client that saw
\* itself in the turn order is not in the stored one
C39_Witness ==
    /\ tLast.fn = "addPlayerToTurnOrder" /\ tLast.wrote
    /\ \E c \in TurnClients :
         /\ tRoom[c].has /\ c \in Range(tRoom[c].order)
         /\ c \notin Range(tOrder)

\* C31: once deleteGameRoom has removed the room, nothing is stored at or
\* below rooms/{roomId} or roomsIndex/{roomId} again
C31_CancelledRoomStaysGone ==
    vCancelled => ~RoomHolds /\ ~IndexHolds

\* C33: a player whose page has been left has no listener on the room, and
\* the last write to the store is not one its listener issued after that
C33_NoActivityAfterTeardown ==
    \A c \in VisitClients :
        vClient[c].left => ~vClient[c].listening /\ ~(vLast.by = c /\ vLast.late)

\* C32: the peer view is never replaced by one made from an older room
\* snapshot than the one it shows
C32_PeerViewNeverOlder ==
    [][gView'.seq >= gView.seq]_vars

\* C32: with no ingestion under way, the peer view is the one made from the
\* last room snapshot handled
C32_PeerViewIsLatest ==
    gTasks = {} => gView.seq = gSeq

\* C34: once the first room snapshot of a visit has been processed, no step
\* of that visit runs the restore or the create branch again or calls
\* joinGameRoom, and a later room snapshot leaves the local zones, the life
\* total and the cards handed out as they were
C34_InitializedOnce ==
    [][(isInitializedRef /\ isInitializedRef') =>
          /\ lastInit' = lastInit
          /\ written' # written => written'.fn # "joinGameRoom"
          /\ room' # room => zones' = zones /\ life' = life /\ decksMade' = decksMade]_vars

\* C34: after the create branch a later room snapshot, the one that shows
\* the client's own join, has been processed and the zones are those of the
\* initialization
C34_Witness ==
    /\ isInitializedRef /\ lastInit.branch = "create"
    /\ room # Null /\ PlayerExists(room[Me])
    /\ zones = lastInit.zones /\ lastInit.joins = 1

\* the first sync tick of a visit that restored a saved game has written
FirstSyncAfterRestore ==
    /\ lastInit.branch = "restore"
    /\ lastTick.fired /\ lastTick.prevNull /\ lastTick.writes = 1
    /\ timers = {}

\* C35: a sync timer runs and a sync write is issued only when the client is
\* Ready; the first full-state write after a restore carries the local
\* zones and life, which are the restored ones when no move was made, so the
\* stored zones are then those the store held before
C35_NoSyncBeforeReady ==
    /\ (timers # {} \/ lastTick.writes > 0) => isReady
    /\ FirstSyncAfterRestore =>
          /\ written.fn = "updatePlayerState"
          /\ \A z \in Zones : written.updates[PlayerPath(Me) \o <<z>>] = toWireZone(zones[z])
          /\ written.updates[PlayerPath(Me) \o <<"life">>] = life
    /\ (FirstSyncAfterRestore /\ lastTick.ops = <<>> /\ lastOp = NoOp) =>
          \A z \in Zones : /\ zones[z] = lastInit.zones[z]
                           /\ players[Me][z] = lastInit.before[z]

\* C35: a rejoin has restored a hand and a library and its first sync has
\* written them
C35_Witness ==
    /\ FirstSyncAfterRestore /\ lastTick.ops = <<>> /\ lastOp = NoOp
    /\ leftWith # Null
    /\ players[Me].hand # emptyZone /\ players[Me].library # emptyZone

\* the instanceIds held in the five local zones
HeldIds == UNION {Ids(zones[z]) : z \in Zones}

\* C36: a play-surface operation other than resetGame leaves the number of
\* times each instanceId is held across the five local zones as it was
C36_CardConservation ==
    [][(opsLeft' < opsLeft /\ lastOp'.name # "resetGame") =>
          \A id \in HeldIds \cup HeldIds' : Occurrences(id)' = Occurrences(id)]_vars

\* C36: what holds of every operation but handleDrop, on zones that hold no
\* instanceId twice
C36_ConservedWithoutDrop ==
    [][(/\ opsLeft' < opsLeft /\ lastOp'.name \notin {"resetGame", "handleDrop"}
        /\ \A id \in HeldIds : Occurrences(id) = 1) =>
          \A id \in HeldIds \cup HeldIds' : Occurrences(id)' = Occurrences(id)]_vars

\* C37: on a restore the local life total is the life the store held for
\* the participant
C37_RestoredLifeIsStored ==
    (lastInit.branch = "restore" /\ "life" \in DOMAIN lastInit.before.scalars) =>
        lastInit.life = lastInit.before.scalars.life

\* C37: what holds of the restored life: the stored one unless that is 0
C37_RestoredLifeUnlessZero ==
    (/\ lastInit.branch = "restore" /\ "life" \in DOMAIN lastInit.before.scalars
     /\ lastInit.before.scalars.life # 0) =>
        lastInit.life = lastInit.before.scalars.life

====
